---- MODULE Spec2Model ----
(***************************************************************************)
(* Model of the text-extraction and discard-provenance pipeline of         *)
(* PDFTools: the DiscardTracker ledger and its statistics                  *)
(* (discard_tracker.py), the page cleaner, reference stripper,             *)
(* page-position mapper and extract_and_clean                              *)
(* (pdftools/pdftext_utils.py), the sentence and paragraph segmenters      *)
(* (scripts/extract_sentences.py, scripts/extract_paragraphs.py), and the  *)
(* page-specification parser and page remover (remove_pdf_pages.py).       *)
(*                                                                         *)
(* A Python str is a sequence of one-character strings; the str methods    *)
(* and regular expressions the code uses are operators that compute on     *)
(* those sequences.                                                        *)
(***************************************************************************)
EXTENDS Integers, Sequences, FiniteSets, TLC

VARIABLES pc, tracker, tracker0, text, page_num, page_boundaries, position, result,
          input, converter, session_state

vars == <<pc, tracker, tracker0, text, page_num, page_boundaries, position, result,
          input, converter, session_state>>

(***************************************************************************)
(* Characters and the str primitives                                       *)
(***************************************************************************)
NL == "\n"

\* str.isspace / the regex class \s, on the characters the model uses
IsSpace(c) == c \in {" ", "\t", "\n", "\r"}

\* str.isdigit / the regex class \d
IsDigit(c) == c \in {"0", "1", "2", "3", "4", "5", "6", "7", "8", "9"}

\* s[i:] with a 0-based i
Drop(s, i) == SubSeq(s, i + 1, Len(s))

\* s[:i] with a 0-based i
Take(s, i) == SubSeq(s, 1, IF i < Len(s) THEN i ELSE Len(s))

RECURSIVE LStrip(_)
LStrip(s) ==
    IF s # <<>> /\ IsSpace(Head(s)) THEN LStrip(Tail(s)) ELSE s

RECURSIVE RStrip(_)
RStrip(s) ==
    IF s # <<>> /\ IsSpace(s[Len(s)]) THEN RStrip(SubSeq(s, 1, Len(s) - 1)) ELSE s

\* str.strip()
Strip(s) == RStrip(LStrip(s))

\* str.startswith(prefix)
StartsWith(s, prefix) ==
    Len(prefix) <= Len(s) /\ SubSeq(s, 1, Len(prefix)) = prefix

\* str.lower() on the ASCII letters
LowerChar(c) ==
    CASE c = "A" -> "a" [] c = "B" -> "b" [] c = "C" -> "c" [] c = "D" -> "d"
      [] c = "E" -> "e" [] c = "F" -> "f" [] c = "G" -> "g" [] c = "H" -> "h"
      [] c = "I" -> "i" [] c = "J" -> "j" [] c = "K" -> "k" [] c = "L" -> "l"
      [] c = "M" -> "m" [] c = "N" -> "n" [] c = "O" -> "o" [] c = "P" -> "p"
      [] c = "Q" -> "q" [] c = "R" -> "r" [] c = "S" -> "s" [] c = "T" -> "t"
      [] c = "U" -> "u" [] c = "V" -> "v" [] c = "W" -> "w" [] c = "X" -> "x"
      [] c = "Y" -> "y" [] c = "Z" -> "z" [] OTHER -> c

Lower(s) == [i \in 1..Len(s) |-> LowerChar(s[i])]

\* 1-based index of the first c in s, 0 when there is none
RECURSIVE IndexOf(_, _, _)
IndexOf(s, c, i) ==
    IF i > Len(s) THEN 0
    ELSE IF s[i] = c THEN i
    ELSE IndexOf(s, c, i + 1)

\* str.split(c): "" gives [""], "a\n" gives ["a", ""]
RECURSIVE Split(_, _)
Split(s, c) ==
    LET i == IndexOf(s, c, 1)
    IN  IF i = 0 THEN <<s>>
        ELSE <<SubSeq(s, 1, i - 1)>> \o Split(SubSeq(s, i + 1, Len(s)), c)

\* c.join(parts)
RECURSIVE Join(_, _)
Join(parts, c) ==
    IF parts = <<>> THEN <<>>
    ELSE IF Len(parts) = 1 THEN parts[1]
    ELSE parts[1] \o <<c>> \o Join(Tail(parts), c)

\* A mutation of str.find: the search starts at the beginning of s, whatever
\* start is
Find_from_beginning(s, sub, start) ==
    LET at == {i \in 0..(Len(s) - Len(sub)) : SubSeq(s, i + 1, i + Len(sub)) = sub}
    IN  IF at = {} THEN -1 ELSE CHOOSE i \in at : \A k \in at : i <= k

\* str.find(sub, start): the 0-based offset of the first occurrence of sub in s
\* at or after start, -1 when there is none
RECURSIVE Find(_, _, _)
Find(s, sub, start) ==
    IF start + Len(sub) > Len(s) THEN -1
    ELSE IF SubSeq(s, start + 1, start + Len(sub)) = sub THEN start
    ELSE Find(s, sub, start + 1)

RECURSIVE SumLen(_)
SumLen(items) ==
    IF items = <<>> THEN 0 ELSE Len(Head(items)) + SumLen(Tail(items))

(***************************************************************************)
(* discard_tracker.py                                                      *)
(***************************************************************************)
DiscardType ==
    {"page_number", "header_footer", "arxiv_metadata", "date_footer",
     "separator_line", "short_line", "references_section",
     "bibliography_entry", "other"}

DiscardedItem(discard_type, content, page, line, reason) ==
    [discard_type |-> discard_type, content |-> content, page_number |-> page,
     line_number |-> line, reason |-> reason]

\* DiscardTracker(): the dataclass defaults
NewTracker ==
    [page_numbers_removed |-> 0, headers_footers_removed |-> 0,
     arxiv_metadata_removed |-> 0, date_footers_removed |-> 0,
     separator_lines_removed |-> 0, short_lines_removed |-> 0,
     references_sections_removed |-> 0, bibliography_entries_removed |-> 0,
     other_removed |-> 0, discarded_items |-> <<>>,
     total_lines_processed |-> 0, total_lines_discarded |-> 0,
     original_character_count |-> 0, final_character_count |-> 0]

\* A mutation of add_discard: short_line discards are booked as other
add_discard_misbooked(t, discard_type, content, page, line, reason) ==
    LET t1 == [t EXCEPT !.discarded_items =
                   Append(@, DiscardedItem(discard_type, content, page, line, reason)),
                        !.total_lines_discarded = @ + 1]
    IN  CASE discard_type = "page_number" ->
               [t1 EXCEPT !.page_numbers_removed = @ + 1]
          [] discard_type = "header_footer" ->
               [t1 EXCEPT !.headers_footers_removed = @ + 1]
          [] discard_type = "arxiv_metadata" ->
               [t1 EXCEPT !.arxiv_metadata_removed = @ + 1]
          [] discard_type = "date_footer" ->
               [t1 EXCEPT !.date_footers_removed = @ + 1]
          [] discard_type = "separator_line" ->
               [t1 EXCEPT !.separator_lines_removed = @ + 1]
          [] discard_type = "references_section" ->
               [t1 EXCEPT !.references_sections_removed = @ + 1]
          [] discard_type = "bibliography_entry" ->
               [t1 EXCEPT !.bibliography_entries_removed = @ + 1]
          [] OTHER ->
               [t1 EXCEPT !.other_removed = @ + 1]

\* DiscardTracker.add_discard: append the record, then the counters
add_discard(t, discard_type, content, page, line, reason) ==
    LET t1 == [t EXCEPT !.discarded_items =
                   Append(@, DiscardedItem(discard_type, content, page, line, reason)),
                        !.total_lines_discarded = @ + 1]
    IN  CASE discard_type = "page_number" ->
               [t1 EXCEPT !.page_numbers_removed = @ + 1]
          [] discard_type = "header_footer" ->
               [t1 EXCEPT !.headers_footers_removed = @ + 1]
          [] discard_type = "arxiv_metadata" ->
               [t1 EXCEPT !.arxiv_metadata_removed = @ + 1]
          [] discard_type = "date_footer" ->
               [t1 EXCEPT !.date_footers_removed = @ + 1]
          [] discard_type = "separator_line" ->
               [t1 EXCEPT !.separator_lines_removed = @ + 1]
          [] discard_type = "short_line" ->
               [t1 EXCEPT !.short_lines_removed = @ + 1]
          [] discard_type = "references_section" ->
               [t1 EXCEPT !.references_sections_removed = @ + 1]
          [] discard_type = "bibliography_entry" ->
               [t1 EXCEPT !.bibliography_entries_removed = @ + 1]
          [] OTHER ->
               [t1 EXCEPT !.other_removed = @ + 1]

\* The counter add_discard keeps for a category (get_summary's rows)
CounterOf(t, discard_type) ==
    CASE discard_type = "page_number" -> t.page_numbers_removed
      [] discard_type = "header_footer" -> t.headers_footers_removed
      [] discard_type = "arxiv_metadata" -> t.arxiv_metadata_removed
      [] discard_type = "date_footer" -> t.date_footers_removed
      [] discard_type = "separator_line" -> t.separator_lines_removed
      [] discard_type = "short_line" -> t.short_lines_removed
      [] discard_type = "references_section" -> t.references_sections_removed
      [] discard_type = "bibliography_entry" -> t.bibliography_entries_removed
      [] OTHER -> t.other_removed

SumOfCounters(t) ==
    t.page_numbers_removed + t.headers_footers_removed + t.arxiv_metadata_removed
    + t.date_footers_removed + t.separator_lines_removed + t.short_lines_removed
    + t.references_sections_removed + t.bibliography_entries_removed
    + t.other_removed

(***************************************************************************)
(* Inputs of the ledger specification                                      *)
(***************************************************************************)
MaxRecords == 3

S_x == <<"x">>

\* No PDF2ImageConverter and no viewer session exist
NoObjects ==
    /\ converter = <<>>
    /\ session_state = <<>>

\* The state every specification gives the variables it does not use
Idle ==
    /\ text = <<>>
    /\ page_num = 0
    /\ page_boundaries = <<0>>
    /\ position = 0
    /\ result = <<>>
    /\ input = <<>>
    /\ NoObjects

(***************************************************************************)
(* SpecTracker: add_discard calls on a freshly created DiscardTracker      *)
(***************************************************************************)
InitTracker ==
    /\ pc = "tracker"
    /\ tracker = NewTracker
    /\ tracker0 = NewTracker
    /\ Idle

AddDiscardCall ==
    /\ pc = "tracker"
    /\ Len(tracker.discarded_items) < MaxRecords
    /\ \E discard_type \in DiscardType, page \in {0, 1} :
          tracker' = add_discard(tracker, discard_type, S_x, page, 0, <<>>)
    /\ UNCHANGED <<pc, tracker0, text, page_num, page_boundaries, position, result, input, converter,
                   session_state>>

NextTracker == AddDiscardCall

SpecTracker == InitTracker /\ [][NextTracker]_vars

\* C1: after any sequence of add_discard calls on a fresh DiscardTracker,
\* total_lines_discarded = len(discarded_items) = the sum of the nine
\* category counters (each counter being the number of records of its
\* category); every call appends exactly one record, raises the counter of
\* that record's category and total_lines_discarded by one, and changes no
\* earlier record, no other counter, nor total_lines_processed nor the two
\* character counts.
C1_AddDiscardBookkeeping ==
    /\ [](/\ tracker.total_lines_discarded = Len(tracker.discarded_items)
          /\ tracker.total_lines_discarded = SumOfCounters(tracker)
          /\ \A d \in DiscardType :
                CounterOf(tracker, d) =
                    Cardinality({i \in 1..Len(tracker.discarded_items) :
                                    tracker.discarded_items[i].discard_type = d}))
    /\ [][LET old == tracker.discarded_items
              new == tracker'.discarded_items
          IN  /\ Len(new) = Len(old) + 1
              /\ SubSeq(new, 1, Len(old)) = old
              /\ new[Len(new)].discard_type \in DiscardType
              /\ \A d \in DiscardType :
                    CounterOf(tracker', d) =
                        CounterOf(tracker, d)
                        + (IF d = new[Len(new)].discard_type THEN 1 ELSE 0)
              /\ tracker'.total_lines_discarded = tracker.total_lines_discarded + 1
              /\ tracker'.total_lines_processed = tracker.total_lines_processed
              /\ tracker'.original_character_count = tracker.original_character_count
              /\ tracker'.final_character_count = tracker.final_character_count
         ]_vars

\* C1 witness: three calls with three different categories have been made
C1_Witness ==
    /\ pc = "tracker"
    /\ Len(tracker.discarded_items) = 3
    /\ tracker.discarded_items[1].discard_type = "short_line"
    /\ tracker.discarded_items[2].discard_type = "other"
    /\ tracker.discarded_items[3].discard_type = "page_number"
    /\ tracker.short_lines_removed = 1
    /\ tracker.total_lines_discarded = 3

(***************************************************************************)
(* pdftext_utils.py: clean_page_text                                       *)
(***************************************************************************)
\* The number of leading characters of s that are digits (a greedy \d*)
RECURSIVE LeadingDigits(_)
LeadingDigits(s) ==
    IF s # <<>> /\ IsDigit(Head(s)) THEN 1 + LeadingDigits(Tail(s)) ELSE 0

\* The number of leading characters of s that are whitespace (a greedy \s*)
RECURSIVE LeadingSpaces(_)
LeadingSpaces(s) ==
    IF s # <<>> /\ IsSpace(Head(s)) THEN 1 + LeadingSpaces(Tail(s)) ELSE 0

\* re.match(r'^\d{1,3}$', stripped); stripped ends in no newline
MatchPageNumber(stripped) ==
    LET n == LeadingDigits(stripped)
    IN  n >= 1 /\ n <= 3 /\ n = Len(stripped)

S_arXiv == <<"a", "r", "X", "i", "v", ":">>

\* re.match(r'^arXiv:\d+\.\d+', stripped): no end anchor, case-sensitive
MatchArxiv(stripped) ==
    /\ StartsWith(stripped, S_arXiv)
    /\ LET rest == Drop(stripped, Len(S_arXiv))
           n == LeadingDigits(rest)
       IN  /\ n >= 1
           /\ Len(rest) >= n + 2
           /\ rest[n + 1] = "."
           /\ IsDigit(rest[n + 2])

MonthNames ==
    {<<"j", "a", "n">>, <<"f", "e", "b">>, <<"m", "a", "r">>, <<"a", "p", "r">>,
     <<"m", "a", "y">>, <<"j", "u", "n">>, <<"j", "u", "l">>, <<"a", "u", "g">>,
     <<"s", "e", "p">>, <<"o", "c", "t">>, <<"n", "o", "v">>, <<"d", "e", "c">>}

\* re.match(r'^\d+\s+(Jan|...|Dec)\s+\d{4}$', stripped, re.IGNORECASE)
MatchDateFooter(stripped) ==
    LET d == LeadingDigits(stripped)
        r1 == Drop(stripped, d)
        w1 == LeadingSpaces(r1)
        r2 == Drop(r1, w1)
        r3 == Drop(r2, 3)
        w2 == LeadingSpaces(r3)
        r4 == Drop(r3, w2)
    IN  /\ d >= 1
        /\ w1 >= 1
        /\ Len(r2) >= 3
        /\ Lower(Take(r2, 3)) \in MonthNames
        /\ w2 >= 1
        /\ Len(r4) = 4
        /\ LeadingDigits(r4) = 4

\* re.match(r'^[=\-*\s]{3,}$', stripped)
MatchSeparator(stripped) ==
    /\ Len(stripped) >= 3
    /\ \A i \in 1..Len(stripped) :
          stripped[i] \in {"=", "-", "*"} \/ IsSpace(stripped[i])

\* A mutation of the rule chain: the short-line test runs first
ClassifyLine_short_first(stripped) ==
    IF Len(stripped) < 3 THEN "short_line"
    ELSE IF MatchPageNumber(stripped) THEN "page_number"
    ELSE IF MatchArxiv(stripped) THEN "arxiv_metadata"
    ELSE IF MatchDateFooter(stripped) THEN "date_footer"
    ELSE IF MatchSeparator(stripped) THEN "separator_line"
    ELSE "keep"

\* The if-chain of clean_page_text on a non-blank stripped line: the
\* category of the first rule that matches, "keep" when none does
ClassifyLine(stripped) ==
    IF MatchPageNumber(stripped) THEN "page_number"
    ELSE IF MatchArxiv(stripped) THEN "arxiv_metadata"
    ELSE IF MatchDateFooter(stripped) THEN "date_footer"
    ELSE IF MatchSeparator(stripped) THEN "separator_line"
    ELSE IF Len(stripped) < 3 THEN "short_line"
    ELSE "keep"

\* The reason string each rule passes to add_discard
ReasonOf(discard_type) ==
    CASE discard_type = "page_number" -> "Standalone page number"
      [] discard_type = "arxiv_metadata" -> "arXiv header/footer"
      [] discard_type = "date_footer" -> "Date footer line"
      [] discard_type = "separator_line" -> "Separator/divider line"
      [] discard_type = "short_line" -> "Too short (< 3 chars)"

\* The length of the run of spaces s starts with
RECURSIVE SpaceRun(_)
SpaceRun(s) ==
    IF s # <<>> /\ Head(s) = " " THEN 1 + SpaceRun(Tail(s)) ELSE 0

\* A mutation of the whitespace normalisation: s.replace("  ", " "), each
\* pair of spaces becomes one space
RECURSIVE CollapseSpaces_pairs(_)
CollapseSpaces_pairs(s) ==
    IF s = <<>> THEN <<>>
    ELSE IF SpaceRun(s) >= 2 THEN <<" ">> \o CollapseSpaces_pairs(Drop(s, 2))
    ELSE <<Head(s)>> \o CollapseSpaces_pairs(Tail(s))

\* A mutation of the whitespace normalisation: nothing is collapsed
CollapseSpaces_none(s) == s

\* re.sub(r' {2,}', ' ', s): each run of two or more spaces becomes one space
RECURSIVE CollapseSpaces(_)
CollapseSpaces(s) ==
    IF s = <<>> THEN <<>>
    ELSE LET n == SpaceRun(s)
         IN  IF n >= 2 THEN <<" ">> \o CollapseSpaces(Drop(s, n))
             ELSE <<Head(s)>> \o CollapseSpaces(Tail(s))

\* A mutation of the line loop: blank lines are counted as processed
CountsAsProcessed_blank_too(stripped) == TRUE

\* The test of clean_page_text's "if not stripped: continue": only a line
\* that is non-blank after trimming reaches the counter and the rules
CountsAsProcessed(stripped) == stripped # <<>>

\* The for loop of clean_page_text over lines[line_num:], line_num lines done
RECURSIVE CleanLoop(_, _, _, _, _)
CleanLoop(lines, line_num, cleaned_lines, page, t) ==
    IF line_num = Len(lines)
    THEN [cleaned_lines |-> cleaned_lines, tracker |-> t]
    ELSE LET n == line_num + 1
             line == lines[n]
             stripped == Strip(line)
         IN  IF ~CountsAsProcessed(stripped)
             THEN CleanLoop(lines, n, cleaned_lines, page, t)
             ELSE LET t1 == [t EXCEPT !.total_lines_processed = @ + 1]
                      kind == ClassifyLine(stripped)
                  IN  IF kind = "keep"
                      THEN CleanLoop(lines, n, Append(cleaned_lines, line), page, t1)
                      ELSE CleanLoop(lines, n, cleaned_lines, page,
                                     add_discard(t1, kind, stripped, page, n,
                                                 ReasonOf(kind)))

\* clean_page_text(text, page_num, tracker): the returned text and the ledger
clean_page_text(txt, page, t) ==
    LET done == CleanLoop(Split(txt, NL), 0, <<>>, page, t)
    IN  [text |-> CollapseSpaces(Join(done.cleaned_lines, NL)),
         cleaned_lines |-> done.cleaned_lines,
         tracker |-> done.tracker]

(***************************************************************************)
(* Inputs of the page-cleaning specification                               *)
(***************************************************************************)
MaxPageLines == 2

\* " \t" (blank after trimming)
L_blank ==
    <<" ", "\t">>
\* "1"
L_1 ==
    <<"1">>
\* "123"
L_123 ==
    <<"1", "2", "3">>
\* "1234"
L_1234 ==
    <<"1", "2", "3", "4">>
\* " 42 "
L_42 ==
    <<" ", "4", "2", " ">>
\* "arXiv:17.03v7 x"
L_arxiv ==
    <<"a", "r", "X", "i", "v", ":", "1", "7", ".", "0", "3", "v", "7", " ",
      "x">>
\* "arXiv:17"
L_arxiv_nodot ==
    <<"a", "r", "X", "i", "v", ":", "1", "7">>
\* "arxiv:1.2"
L_arxiv_lower ==
    <<"a", "r", "x", "i", "v", ":", "1", ".", "2">>
\* "28 May 2020"
L_date ==
    <<"2", "8", " ", "M", "a", "y", " ", "2", "0", "2", "0">>
\* "2  AUG 2023"
L_date_upper ==
    <<"2", " ", " ", "A", "U", "G", " ", "2", "0", "2", "3">>
\* "2 Aug 20231"
L_date_long ==
    <<"2", " ", "A", "u", "g", " ", "2", "0", "2", "3", "1">>
\* "---"
L_sep ==
    <<"-", "-", "-">>
\* "= *"
L_sep_mixed ==
    <<"=", " ", "*">>
\* "--"
L_sep2 ==
    <<"-", "-">>
\* "ab"
L_ab ==
    <<"a", "b">>
\* "--x"
L_dash_x ==
    <<"-", "-", "x">>
\* "  a  b   c" (kept; runs of spaces)
L_wide ==
    <<" ", " ", "a", " ", " ", "b", " ", " ", " ", "c">>
\* "Introduction\n1\nBody text"
T_scenario ==
    <<"I", "n", "t", "r", "o", "d", "u", "c", "t", "i", "o", "n", "\n", "1",
      "\n", "B", "o", "d", "y", " ", "t", "e", "x", "t">>
\* "Line 1\n\nLine 2\n\n\nLine 3"
T_blank_lines ==
    <<"L", "i", "n", "e", " ", "1", "\n", "\n", "L", "i", "n", "e", " ", "2",
      "\n", "\n", "\n", "L", "i", "n", "e", " ", "3">>
\* "7"
S_7 ==
    <<"7">>

\* "  a  b\n\n42\n \t\n--\narXiv:1.2"
T_mixed ==
    <<" ", " ", "a", " ", " ", "b", "\n", "\n", "4", "2", "\n", " ", "\t",
      "\n", "-", "-", "\n", "a", "r", "X", "i", "v", ":", "1", ".", "2">>
LineSamples ==
    {<<>>, L_blank, L_1, L_123, L_1234, L_42, L_arxiv, L_arxiv_nodot,
     L_arxiv_lower, L_date, L_date_upper, L_date_long, L_sep, L_sep_mixed,
     L_sep2, L_ab, L_dash_x, L_wide}

\* Every sequence of 1..n elements of S
SeqsUpTo(S, n) == UNION {[1..k -> S] : k \in 1..n}

PageTexts ==
    {Join(ls, NL) : ls \in SeqsUpTo(LineSamples, MaxPageLines)}
    \cup {T_scenario, T_blank_lines, T_mixed}

\* A ledger as a later page meets it: two lines processed, one discarded
UsedTracker ==
    add_discard([NewTracker EXCEPT !.total_lines_processed = 2],
                "page_number", S_7, 0, 2, "Standalone page number")

(***************************************************************************)
(* SpecClean: one call of clean_page_text                                  *)
(***************************************************************************)
InitClean ==
    /\ pc = "clean"
    /\ text \in PageTexts
    /\ \/ page_num = 0 /\ tracker = NewTracker
       \/ page_num = 1 /\ tracker = UsedTracker
    /\ tracker0 = tracker
    /\ page_boundaries = <<0>>
    /\ position = 0
    /\ result = <<>>
    /\ input = <<>>
    /\ NoObjects

CleanPageTextCall ==
    /\ pc = "clean"
    /\ LET r == clean_page_text(text, page_num, tracker)
       IN  /\ result' = r.text
           /\ tracker' = r.tracker
    /\ pc' = "cleaned"
    /\ UNCHANGED <<tracker0, text, page_num, page_boundaries, position, input, converter,
                   session_state>>

NextClean == CleanPageTextCall

SpecClean == InitClean /\ [][NextClean]_vars

\* "Introduction\nBody text"
R_scenario ==
    <<"I", "n", "t", "r", "o", "d", "u", "c", "t", "i", "o", "n", "\n", "B",
      "o", "d", "y", " ", "t", "e", "x", "t">>
\* " a b"
R_mixed ==
    <<" ", "a", " ", "b">>

\* "non-blank after trimming", said without str.strip: some character of
\* the line is not whitespace
C2_NonBlank(line) == \E j \in 1..Len(line) : ~IsSpace(line[j])

\* The records the call added: the ledger's list beyond what it held before
NewRecords ==
    SubSeq(tracker.discarded_items, Len(tracker0.discarded_items) + 1,
           Len(tracker.discarded_items))

\* C2: clean_page_text raises total_lines_processed by exactly the number
\* of lines that are non-blank after trimming, which is the number of lines
\* kept in the returned text plus the number of discard records the call
\* added; a blank line raises no discard counter and adds no record.
C2_ProcessedCountsNonBlankLines ==
    pc = "cleaned" =>
        LET lines == Split(text, NL)
            nonblank == Cardinality({i \in 1..Len(lines) : C2_NonBlank(lines[i])})
            kept == IF result = <<>> THEN 0 ELSE Len(Split(result, NL))
        IN  /\ tracker.total_lines_processed =
                   tracker0.total_lines_processed + nonblank
            /\ nonblank = kept + Len(NewRecords)
            /\ tracker.total_lines_discarded =
                   tracker0.total_lines_discarded + Len(NewRecords)
            /\ SumOfCounters(tracker) = SumOfCounters(tracker0) + Len(NewRecords)
            /\ \A k \in 1..Len(NewRecords) :
                  /\ NewRecords[k].line_number \in 1..Len(lines)
                  /\ C2_NonBlank(lines[NewRecords[k].line_number])
            /\ SubSeq(tracker.discarded_items, 1, Len(tracker0.discarded_items))
                   = tracker0.discarded_items

\* C2 witness: a page with two blank lines, one kept line and three
\* discarded lines has been cleaned on a ledger that already held a record
C2_Witness ==
    /\ pc = "cleaned"
    /\ text = T_mixed
    /\ tracker0 = UsedTracker
    /\ tracker.total_lines_processed = 6
    /\ Len(NewRecords) = 3
    /\ result = R_mixed

\* The rules as the claim words them, each on the trimmed line
C3_PageNumber(s) == Len(s) \in 1..3 /\ \A i \in 1..Len(s) : IsDigit(s[i])

C3_Arxiv(s) ==
    \E n \in 1..Len(s) :
        /\ Len(s) >= 6 + n + 2
        /\ SubSeq(s, 1, 6) = <<"a", "r", "X", "i", "v", ":">>
        /\ \A i \in 7..(6 + n) : IsDigit(s[i])
        /\ s[6 + n + 1] = "."
        /\ IsDigit(s[6 + n + 2])

C3_Date(s) ==
    \E a \in 1..Len(s), b \in 1..Len(s), c \in 1..Len(s) :
        /\ a < b /\ b + 3 < c /\ Len(s) = c + 4
        /\ \A i \in 1..a : IsDigit(s[i])
        /\ \A i \in (a + 1)..b : IsSpace(s[i])
        /\ Lower(SubSeq(s, b + 1, b + 3)) \in MonthNames
        /\ \A i \in (b + 4)..c : IsSpace(s[i])
        /\ \A i \in (c + 1)..(c + 4) : IsDigit(s[i])

C3_Separator(s) ==
    Len(s) >= 3 /\ \A i \in 1..Len(s) : s[i] \in {"=", "-", "*", " ", "\t", "\n", "\r"}

C3_Short(s) == Len(s) < 3

\* The category of the earliest rule that holds, in the claim's order
C3_Expected(s) ==
    CASE C3_PageNumber(s) -> "page_number"
      [] ~C3_PageNumber(s) /\ C3_Arxiv(s) -> "arxiv_metadata"
      [] ~C3_PageNumber(s) /\ ~C3_Arxiv(s) /\ C3_Date(s) -> "date_footer"
      [] ~C3_PageNumber(s) /\ ~C3_Arxiv(s) /\ ~C3_Date(s) /\ C3_Separator(s) ->
            "separator_line"
      [] ~C3_PageNumber(s) /\ ~C3_Arxiv(s) /\ ~C3_Date(s) /\ ~C3_Separator(s)
            /\ C3_Short(s) -> "short_line"
      [] OTHER -> "keep"

\* C3: every non-blank trimmed line gets the category of the first rule
\* that matches it, in the order page-number, metadata stamp, date-footer,
\* separator, short-line, else kept; a line of one or two digits is a
\* page-number, never a short-line; no line produces more than one record.
C3_FirstMatchingRuleWins ==
    pc = "cleaned" =>
        LET lines == Split(text, NL)
            dropped == {i \in 1..Len(lines) :
                           /\ C2_NonBlank(lines[i])
                           /\ C3_Expected(Strip(lines[i])) # "keep"}
        IN  /\ {NewRecords[k].line_number : k \in 1..Len(NewRecords)} = dropped
            /\ \A k \in 1..Len(NewRecords) :
                  LET rec == NewRecords[k]
                  IN  /\ rec.line_number \in 1..Len(lines)
                      /\ rec.discard_type = C3_Expected(Strip(lines[rec.line_number]))
                      /\ rec.content = Strip(lines[rec.line_number])
                      /\ rec.page_number = page_num
                      /\ (C3_PageNumber(rec.content) /\ C3_Short(rec.content))
                            => rec.discard_type = "page_number"
            /\ \A k \in 1..(Len(NewRecords) - 1) :
                  NewRecords[k].line_number < NewRecords[k + 1].line_number
            /\ \A d \in DiscardType :
                  CounterOf(tracker, d) - CounterOf(tracker0, d) =
                      Cardinality({i \in dropped : C3_Expected(Strip(lines[i])) = d})

\* C3 witness: a page holding the one-digit line "1", which both the
\* page-number rule and the short-line rule match, and the two-character
\* line "--", has been cleaned: two records, page_number then short_line
C3_Witness ==
    /\ pc = "cleaned"
    /\ text = L_1 \o <<NL>> \o L_sep2
    /\ Len(NewRecords) = 2
    /\ NewRecords[1].discard_type = "page_number"
    /\ NewRecords[1].content = L_1
    /\ NewRecords[2].discard_type = "short_line"

\* A line with every space that follows a space removed
RECURSIVE C4_Squeeze(_, _)
C4_Squeeze(line, n) ==
    IF n = 0 THEN <<>>
    ELSE C4_Squeeze(line, n - 1)
         \o (IF n > 1 /\ line[n] = " " /\ line[n - 1] = " " THEN <<>> ELSE <<line[n]>>)

C4_IsKept(line) == C2_NonBlank(line) /\ C3_Expected(Strip(line)) = "keep"

\* C4: the returned text is the kept lines in their original order, joined
\* by newlines, each with every run of two or more spaces replaced by one
\* space and otherwise unchanged; "Introduction\n1\nBody text" gives
\* "Introduction\nBody text" and one more page_numbers_removed.
C4_ReturnedTextIsKeptLines ==
    pc = "cleaned" =>
        LET kept == SelectSeq(Split(text, NL), C4_IsKept)
        IN  /\ result = Join([i \in 1..Len(kept) |-> C4_Squeeze(kept[i], Len(kept[i]))], NL)
            /\ text = T_scenario =>
                  /\ result = R_scenario
                  /\ tracker.page_numbers_removed = tracker0.page_numbers_removed + 1
                  /\ Len(NewRecords) = 1

\* C4 witness: the scenario page has been cleaned to "Introduction\nBody text"
C4_Witness ==
    /\ pc = "cleaned"
    /\ text = T_scenario
    /\ tracker0 = NewTracker
    /\ result = R_scenario
    /\ tracker.page_numbers_removed = 1

(***************************************************************************)
(* pdftext_utils.py: remove_references                                     *)
(***************************************************************************)
\* "references"
S_references ==
    <<"r", "e", "f", "e", "r", "e", "n", "c", "e", "s">>
\* "bibliography"
S_bibliography ==
    <<"b", "i", "b", "l", "i", "o", "g", "r", "a", "p", "h", "y">>

\* A mutation of the header test: the pattern has lost its end anchor
IsRefHeader_unanchored(line) ==
    LET stripped == Lower(Strip(line))
    IN  StartsWith(stripped, S_references) \/ StartsWith(stripped, S_bibliography)

\* re.match(r'^\s*(?:References|Bibliography|REFERENCES|BIBLIOGRAPHY)\s*$',
\*          line.strip(), re.IGNORECASE)
IsRefHeader(line) ==
    LET stripped == Lower(Strip(line))
    IN  stripped = S_references \/ stripped = S_bibliography

\* A mutation of the scan: the last header line is taken, not the first
RECURSIVE FindRefStart_last(_, _)
FindRefStart_last(lines, i) ==
    IF i >= Len(lines) THEN -1
    ELSE LET later == FindRefStart_last(lines, i + 1)
         IN  IF later # -1 THEN later
             ELSE IF IsRefHeader(lines[i + 1]) THEN i
             ELSE -1

\* The scan for ref_start_idx from 0-based line i on: the index of the
\* first header line, -1 for None
RECURSIVE FindRefStart(_, _)
FindRefStart(lines, i) ==
    IF i >= Len(lines) THEN -1
    ELSE IF IsRefHeader(lines[i + 1]) THEN i
    ELSE FindRefStart(lines, i + 1)

\* The loop over removed_lines[1:], enumerated from ref_start_idx + 1: i is
\* the 0-based index in lines of the next line to look at
RECURSIVE TrackEntries(_, _, _)
TrackEntries(lines, i, t) ==
    IF i >= Len(lines) THEN t
    ELSE LET stripped == Strip(lines[i + 1])
         IN  IF stripped # <<>> /\ ~StartsWith(stripped, <<"=">>)
             THEN TrackEntries(lines, i + 1,
                      add_discard(t, "bibliography_entry", stripped, 0, i,
                                  "Bibliography/reference entry"))
             ELSE TrackEntries(lines, i + 1, t)

\* A mutation of remove_references: only the header line is removed from
\* the text, the lines after it are kept
remove_references_header_only(txt, t) ==
    LET lines == Split(txt, NL)
        ref_start_idx == FindRefStart(lines, 0)
    IN  IF ref_start_idx # -1
        THEN [text |-> Join(Take(lines, ref_start_idx)
                                \o Drop(lines, ref_start_idx + 1), NL),
              tracker |->
                  TrackEntries(lines, ref_start_idx + 1,
                      add_discard(t, "references_section", lines[ref_start_idx + 1],
                                  ref_start_idx, 0, "References section header"))]
        ELSE [text |-> txt, tracker |-> t]

\* remove_references(text, tracker): the returned text and the ledger
remove_references(txt, t) ==
    LET lines == Split(txt, NL)
        ref_start_idx == FindRefStart(lines, 0)
    IN  IF ref_start_idx # -1
        THEN [text |-> Join(Take(lines, ref_start_idx), NL),
              tracker |->
                  TrackEntries(lines, ref_start_idx + 1,
                      add_discard(t, "references_section", lines[ref_start_idx + 1],
                                  ref_start_idx, 0, "References section header"))]
        ELSE [text |-> txt, tracker |-> t]

(***************************************************************************)
(* Inputs of the reference-stripping specification                         *)
(***************************************************************************)
MaxRefLines == 3

\* "Intro"
L_Intro ==
    <<"I", "n", "t", "r", "o">>
\* "References"
L_References ==
    <<"R", "e", "f", "e", "r", "e", "n", "c", "e", "s">>
\* " BIBLIOGRAPHY\t"
L_BIBLIOGRAPHY ==
    <<" ", "B", "I", "B", "L", "I", "O", "G", "R", "A", "P", "H", "Y", "\t">>
\* "[1] A"
L_ref1 ==
    <<"[", "1", "]", " ", "A">>
\* "=x"
L_divider ==
    <<"=", "x">>
\* "References:"
L_References_colon ==
    <<"R", "e", "f", "e", "r", "e", "n", "c", "e", "s", ":">>
\* "Intro\nContent\nReferences\n[1] A\n[2] B"
T_refs_scenario ==
    <<"I", "n", "t", "r", "o", "\n", "C", "o", "n", "t", "e", "n", "t", "\n",
      "R", "e", "f", "e", "r", "e", "n", "c", "e", "s", "\n", "[", "1", "]",
      " ", "A", "\n", "[", "2", "]", " ", "B">>
\* "Intro\nContent"
R_refs_scenario ==
    <<"I", "n", "t", "r", "o", "\n", "C", "o", "n", "t", "e", "n", "t">>
\* "Intro\nReferences:\n[1] A"
T_no_refs ==
    <<"I", "n", "t", "r", "o", "\n", "R", "e", "f", "e", "r", "e", "n", "c",
      "e", "s", ":", "\n", "[", "1", "]", " ", "A">>

RefLineSamples ==
    {<<>>, L_blank, L_Intro, L_References, L_BIBLIOGRAPHY, L_ref1, L_divider,
     L_References_colon}

RefTexts ==
    {Join(ls, NL) : ls \in SeqsUpTo(RefLineSamples, MaxRefLines)}
    \cup {T_refs_scenario}

(***************************************************************************)
(* SpecRefs: one call of remove_references                                 *)
(***************************************************************************)
InitRefs ==
    /\ pc = "refs"
    /\ text \in RefTexts
    /\ tracker \in {NewTracker, UsedTracker}
    /\ tracker0 = tracker
    /\ page_num = 0
    /\ page_boundaries = <<0>>
    /\ position = 0
    /\ result = <<>>
    /\ input = <<>>
    /\ NoObjects

RemoveReferencesCall ==
    /\ pc = "refs"
    /\ LET r == remove_references(text, tracker)
       IN  /\ result' = r.text
           /\ tracker' = r.tracker
    /\ pc' = "stripped"
    /\ UNCHANGED <<tracker0, text, page_num, page_boundaries, position, input, converter,
                   session_state>>

NextRefs == RemoveReferencesCall

SpecRefs == InitRefs /\ [][NextRefs]_vars

\* A header line as the claim words it: the trimmed content equals
\* "references" or "bibliography" when case is ignored
C5_IsHeader(line) ==
    \E a \in 0..Len(line), b \in 0..Len(line) :
        /\ a <= b
        /\ \A i \in 1..a : IsSpace(line[i])
        /\ \A i \in (b + 1)..Len(line) : IsSpace(line[i])
        /\ Lower(SubSeq(line, a + 1, b)) \in {S_references, S_bibliography}

C5_HasHeader(txt) ==
    \E i \in 1..Len(Split(txt, NL)) : C5_IsHeader(Split(txt, NL)[i])

\* The elements of a set of numbers in increasing order
RECURSIVE AscendingSeq(_)
AscendingSeq(S) ==
    IF S = {} THEN <<>>
    ELSE LET m == CHOOSE x \in S : \A y \in S : x <= y
         IN  <<m>> \o AscendingSeq(S \ {m})

\* C5: with k the index of the first header line, remove_references returns
\* lines [0, k) joined by newlines, adds one references_section record for
\* line k, then one bibliography_entry record for each later line whose
\* trimmed content is non-empty and does not start with '=', and no other
\* record; a later header line is only a bibliography entry. The scenario
\* "Intro\nContent\nReferences\n[1] A\n[2] B" gives "Intro\nContent", one
\* marker and two entries.
C5_TruncatesAtFirstHeader ==
    (pc = "stripped" /\ C5_HasHeader(text)) =>
        LET lines == Split(text, NL)
            k == CHOOSE i \in 1..Len(lines) :
                     /\ C5_IsHeader(lines[i])
                     /\ \A j \in 1..(i - 1) : ~C5_IsHeader(lines[j])
            entries == AscendingSeq({j \in (k + 1)..Len(lines) :
                                     /\ C2_NonBlank(lines[j])
                                     /\ Strip(lines[j])[1] # "="})
        IN  /\ result = Join(SubSeq(lines, 1, k - 1), NL)
            /\ Len(NewRecords) = 1 + Len(entries)
            /\ NewRecords[1].discard_type = "references_section"
            /\ NewRecords[1].content = lines[k]
            /\ \A n \in 1..Len(entries) :
                  /\ NewRecords[n + 1].discard_type = "bibliography_entry"
                  /\ NewRecords[n + 1].content = Strip(lines[entries[n]])
                  /\ NewRecords[n + 1].line_number = entries[n] - 1
            /\ \A j \in (k + 1)..Len(lines) :
                  C5_IsHeader(lines[j]) =>
                      \E n \in 1..Len(entries) : entries[n] = j
            /\ \A d \in DiscardType :
                  CounterOf(tracker, d) - CounterOf(tracker0, d) =
                      CASE d = "references_section" -> 1
                        [] d = "bibliography_entry" -> Len(entries)
                        [] OTHER -> 0
            /\ SubSeq(tracker.discarded_items, 1, Len(tracker0.discarded_items))
                   = tracker0.discarded_items
            /\ text = T_refs_scenario =>
                  /\ result = R_refs_scenario
                  /\ tracker.references_sections_removed =
                         tracker0.references_sections_removed + 1
                  /\ tracker.bibliography_entries_removed =
                         tracker0.bibliography_entries_removed + 2

\* C5 witness: a text with two header lines has been stripped at the first
\* one, and the second one is booked as a bibliography entry
C5_Witness ==
    /\ pc = "stripped"
    /\ text = L_Intro \o <<NL>> \o L_BIBLIOGRAPHY \o <<NL>> \o L_References
    /\ result = L_Intro
    /\ Len(NewRecords) = 2
    /\ NewRecords[1].discard_type = "references_section"
    /\ NewRecords[2].discard_type = "bibliography_entry"
    /\ NewRecords[2].content = L_References

\* C6: when no line is a header, remove_references returns its input and
\* leaves the ledger as it was: no record, no counter changes.
C6_NoHeaderNoChange ==
    (pc = "stripped" /\ ~C5_HasHeader(text)) =>
        /\ result = text
        /\ tracker = tracker0

\* C6 witness: a text whose second line only begins with "References" has
\* been passed through, on a ledger that already held a record
C6_Witness ==
    /\ pc = "stripped"
    /\ text = T_no_refs
    /\ result = T_no_refs
    /\ tracker0 = UsedTracker
    /\ tracker = UsedTracker

(***************************************************************************)
(* pdftext_utils.py: calculate_page_position                               *)
(***************************************************************************)
\* A mutation of the count: the first entry of the table is counted too
calculate_page_position_all_entries(pos, boundaries) ==
    Cardinality({i \in 1..Len(boundaries) : boundaries[i] <= pos})

\* A mutation of the comparison: a boundary equal to the offset is not counted
calculate_page_position_strict(pos, boundaries) ==
    Cardinality({i \in 2..Len(boundaries) : boundaries[i] < pos})

\* A mutation of the comparison: its two sides are swapped
calculate_page_position_swapped(pos, boundaries) ==
    Cardinality({i \in 2..Len(boundaries) : pos <= boundaries[i]})

\* sum(1 for b in page_boundaries[1:] if b <= position)
calculate_page_position(pos, boundaries) ==
    Cardinality({i \in 2..Len(boundaries) : boundaries[i] <= pos})

(***************************************************************************)
(* Inputs of the page-position specification: page boundary tables as      *)
(* extract_and_clean builds them, a leading 0 followed by non-decreasing   *)
(* cumulative offsets                                                      *)
(***************************************************************************)
MaxPages == 3

MaxOffset == 4

IsPageTable(b) ==
    /\ Len(b) >= 1
    /\ b[1] = 0
    /\ \A i \in 1..(Len(b) - 1) : b[i] <= b[i + 1]

TablesOver(values, pages) ==
    {b \in UNION {[1..n -> values] : n \in 1..(pages + 1)} : IsPageTable(b)}

\* The table of the tests of TestCalculatePagePosition
ScenarioTable == <<0, 1000, 2000, 3000>>

ScenarioOffsets == {0, 500, 1000, 1500, 2500, 5000}

(***************************************************************************)
(* SpecPos: one call of calculate_page_position                            *)
(***************************************************************************)
InitPos ==
    /\ pc = "pos"
    /\ \/ /\ page_boundaries \in TablesOver(0..MaxOffset, MaxPages)
          /\ position \in 0..(MaxOffset + 1)
       \/ /\ page_boundaries = ScenarioTable
          /\ position \in ScenarioOffsets
    /\ tracker = NewTracker
    /\ tracker0 = NewTracker
    /\ text = <<>>
    /\ page_num = 0
    /\ result = <<>>
    /\ input = <<>>
    /\ NoObjects

CalculatePagePositionCall ==
    /\ pc = "pos"
    /\ result' = calculate_page_position(position, page_boundaries)
    /\ pc' = "mapped"
    /\ UNCHANGED <<tracker, tracker0, text, page_num, page_boundaries, position, input, converter,
                   session_state>>

NextPos == CalculatePagePositionCall

SpecPos == InitPos /\ [][NextPos]_vars

\* C9: the result is the number of table entries after the leading 0 that
\* are <= the offset, i.e. the r with the r entries after the 0 all <= the
\* offset and every later entry above it; an offset equal to a boundary is
\* on the page after that boundary; an offset at or beyond the last
\* boundary gives len(table) - 1; the result lies in 0..len(table) - 1.
\* With [0, 1000, 2000, 3000]: 1000 gives 1, 2500 gives 2, 5000 gives 3.
C9_CountsBoundariesAtOrBelow ==
    pc = "mapped" =>
        LET n == Len(page_boundaries)
        IN  /\ result \in 0..(n - 1)
            /\ \A i \in 2..(result + 1) : page_boundaries[i] <= position
            /\ \A i \in (result + 2)..n : page_boundaries[i] > position
            /\ \A i \in 2..n : page_boundaries[i] = position => result >= i - 1
            /\ position >= page_boundaries[n] => result = n - 1
            /\ page_boundaries = ScenarioTable =>
                  /\ position = 1000 => result = 1
                  /\ position = 2500 => result = 2
                  /\ position = 5000 => result = 3

\* C9 witness: offset 1000 of the scenario table has been mapped to page 1
C9_Witness ==
    /\ pc = "mapped"
    /\ page_boundaries = ScenarioTable
    /\ position = 1000
    /\ result = 1

\* C10: the call leaves the table (and the offset) as they were, and no
\* smaller offset maps to a later page, no larger offset to an earlier one.
C10_MonotonicInOffset ==
    [][(pc = "pos" /\ pc' = "mapped") =>
          /\ page_boundaries' = page_boundaries
          /\ position' = position
          /\ \A x \in 0..position :
                calculate_page_position(x, page_boundaries) <= result'
          /\ \A y \in position..(position + MaxOffset) :
                result' <= calculate_page_position(y, page_boundaries)
      ]_vars

\* C10 witness: offset 3 has been mapped to page 2 of a table under which
\* offset 0 is on page 0 and offset 4 on page 3
C10_Witness ==
    /\ pc = "mapped"
    /\ page_boundaries = <<0, 1, 3, 4>>
    /\ position = 3
    /\ result = 2
    /\ calculate_page_position(0, page_boundaries) = 0
    /\ calculate_page_position(4, page_boundaries) = 3

(***************************************************************************)
(* scripts/extract_sentences.py: extract_sentences                         *)
(***************************************************************************)
MinSentenceLength == 10

IsTerminal(c) == c \in {".", "!", "?"}

\* The 1-based index, from i on, of the first whitespace character that
\* directly follows a '.', '!' or '?': where (?<=[.!?])\s+ next matches;
\* 0 when it matches nowhere
RECURSIVE NextCut(_, _)
NextCut(s, i) ==
    IF i > Len(s) THEN 0
    ELSE IF i >= 2 /\ IsSpace(s[i]) /\ IsTerminal(s[i - 1]) THEN i
    ELSE NextCut(s, i + 1)

\* re.split(r'(?<=[.!?])\s+', s): the whole whitespace run is the delimiter
RECURSIVE SplitSentences(_)
SplitSentences(s) ==
    LET p == NextCut(s, 1)
    IN  IF p = 0 THEN <<s>>
        ELSE <<SubSeq(s, 1, p - 1)>>
             \o SplitSentences(Drop(s, p - 1 + LeadingSpaces(Drop(s, p - 1))))

\* re.match(r'^\d+\s*$', sentence)
MatchNumberOnly(sentence) ==
    LET d == LeadingDigits(sentence)
    IN  d >= 1 /\ LeadingSpaces(Drop(sentence, d)) = Len(sentence) - d

\* A mutation of the filters: the number test runs before the length test
SentenceFilter_number_first(sentence) ==
    IF MatchNumberOnly(sentence) THEN "page_number"
    ELSE IF Len(sentence) < MinSentenceLength THEN "short_line"
    ELSE "keep"

\* The two filters of the loop, in the code's order
SentenceFilter(sentence) ==
    IF Len(sentence) < MinSentenceLength THEN "short_line"
    ELSE IF MatchNumberOnly(sentence) THEN "page_number"
    ELSE "keep"

\* A mutation of the page lookup: the end page is mapped from the start offset
\* and the start page from the end offset
PageSpan_swapped(start, end, boundaries) ==
    [start_page |-> calculate_page_position(end, boundaries),
     end_page |-> calculate_page_position(start, boundaries)]

\* start_page and end_page of a unit found at [start, end)
PageSpan(start, end, boundaries) ==
    [start_page |-> calculate_page_position(start, boundaries),
     end_page |-> calculate_page_position(end, boundaries)]

\* The for loop of extract_sentences over raw_sentences[n:]; st holds the
\* three lists, char_pos and the ledger (offsets keeps each unit's
\* sentence_start and sentence_end)
RECURSIVE SentenceLoop(_, _, _, _, _)
SentenceLoop(full_text, boundaries, raw_sentences, n, st) ==
    IF n > Len(raw_sentences) THEN st
    ELSE LET sentence == Strip(raw_sentences[n])
             kind == SentenceFilter(sentence)
         IN  IF kind = "short_line"
             THEN SentenceLoop(full_text, boundaries, raw_sentences, n + 1,
                      [st EXCEPT !.tracker =
                          add_discard(@, "short_line", sentence, 0, 0,
                                      "Sentence < 10 chars")])
             ELSE IF kind = "page_number"
             THEN SentenceLoop(full_text, boundaries, raw_sentences, n + 1,
                      [st EXCEPT !.tracker =
                          add_discard(@, "page_number", sentence, 0, 0,
                                      "Sentence is just a number")])
             ELSE LET found == Find(full_text, sentence, st.char_pos)
                      sentence_start == IF found = -1 THEN st.char_pos ELSE found
                      sentence_end == sentence_start + Len(sentence)
                      span == PageSpan(sentence_start, sentence_end, boundaries)
                  IN  SentenceLoop(full_text, boundaries, raw_sentences, n + 1,
                          [st EXCEPT !.items = Append(@, sentence),
                                     !.starts = Append(@, span.start_page),
                                     !.ends = Append(@, span.end_page),
                                     !.offsets = Append(@, <<sentence_start, sentence_end>>),
                                     !.not_found = @ + (IF found = -1 THEN 1 ELSE 0),
                                     !.char_pos = sentence_end])

\* A mutation of extract_sentences: the units' length is added to the
\* count already stored
extract_sentences_accumulating(full_text, boundaries, t) ==
    LET raw_sentences == SplitSentences(full_text)
        st == SentenceLoop(full_text, boundaries, raw_sentences, 1,
                  [items |-> <<>>, starts |-> <<>>, ends |-> <<>>,
                   offsets |-> <<>>, not_found |-> 0, char_pos |-> 0,
                   tracker |-> t])
    IN  [items |-> st.items, starts |-> st.starts, ends |-> st.ends,
         offsets |-> st.offsets, not_found |-> st.not_found,
         tracker |-> [st.tracker EXCEPT !.final_character_count = @ + SumLen(st.items)]]

\* extract_sentences(full_text, page_boundaries, tracker)
extract_sentences(full_text, boundaries, t) ==
    LET raw_sentences == SplitSentences(full_text)
        st == SentenceLoop(full_text, boundaries, raw_sentences, 1,
                  [items |-> <<>>, starts |-> <<>>, ends |-> <<>>,
                   offsets |-> <<>>, not_found |-> 0, char_pos |-> 0,
                   tracker |-> t])
    IN  [items |-> st.items, starts |-> st.starts, ends |-> st.ends,
         offsets |-> st.offsets, not_found |-> st.not_found,
         tracker |-> [st.tracker EXCEPT !.final_character_count = SumLen(st.items)]]

(***************************************************************************)
(* scripts/extract_paragraphs.py: extract_all_paragraphs                   *)
(***************************************************************************)
MinParagraphLength == 20

HeaderWindow == 5

\* is_section_header for a line, given the lines accumulated so far
is_section_header(line, current) ==
    /\ Strip(line) # <<>>
    /\ IsDigit(Strip(line)[1])
    /\ IndexOf(Take(line, HeaderWindow), ".", 1) # 0
    /\ Len(current) > 0

\* A mutation of save_paragraph: the candidate is kept whatever its length
save_paragraph_no_minimum(full_text, boundaries, para_lines, st) ==
    LET para_text == Strip(Join(para_lines, NL))
        para_start == Find(full_text, para_text, st.char_start)
        para_end == IF para_start # -1 THEN para_start + Len(para_text)
                    ELSE st.char_start
        span == PageSpan(para_start, para_end, boundaries)
    IN  [st EXCEPT !.items = Append(@, para_text),
                   !.starts = Append(@, span.start_page),
                   !.ends = Append(@, span.end_page),
                   !.offsets = Append(@, <<para_start, para_end>>),
                   !.not_found = @ + (IF para_start = -1 THEN 1 ELSE 0),
                   !.char_start = para_end]

\* save_paragraph(para_lines): st holds the three lists and char_start
save_paragraph(full_text, boundaries, para_lines, st) ==
    LET para_text == Strip(Join(para_lines, NL))
    IN  IF Len(para_text) >= MinParagraphLength
        THEN LET para_start == Find(full_text, para_text, st.char_start)
                 para_end == IF para_start # -1 THEN para_start + Len(para_text)
                             ELSE st.char_start
                 span == PageSpan(para_start, para_end, boundaries)
             IN  [st EXCEPT !.items = Append(@, para_text),
                            !.starts = Append(@, span.start_page),
                            !.ends = Append(@, span.end_page),
                            !.offsets = Append(@, <<para_start, para_end>>),
                            !.not_found = @ + (IF para_start = -1 THEN 1 ELSE 0),
                            !.char_start = para_end]
        ELSE st

\* The for loop of extract_all_paragraphs over lines[n:], with the lines
\* accumulated in current
RECURSIVE ParagraphLoop(_, _, _, _, _, _)
ParagraphLoop(full_text, boundaries, lines, n, current, st) ==
    IF n > Len(lines)
    THEN IF current # <<>> THEN save_paragraph(full_text, boundaries, current, st)
         ELSE st
    ELSE IF is_section_header(lines[n], current)
         THEN ParagraphLoop(full_text, boundaries, lines, n + 1, <<lines[n]>>,
                            save_paragraph(full_text, boundaries, current, st))
         ELSE ParagraphLoop(full_text, boundaries, lines, n + 1,
                            Append(current, lines[n]), st)

\* A sequence in reverse order
Reverse(seq) == [i \in 1..Len(seq) |-> seq[Len(seq) + 1 - i]]

\* A mutation of extract_all_paragraphs: the lists are returned latest
\* paragraph first
extract_all_paragraphs_latest_first(full_text, boundaries, t) ==
    LET st == ParagraphLoop(full_text, boundaries, Split(full_text, NL), 1, <<>>,
                  [items |-> <<>>, starts |-> <<>>, ends |-> <<>>,
                   offsets |-> <<>>, not_found |-> 0, char_start |-> 0])
    IN  [items |-> Reverse(st.items), starts |-> Reverse(st.starts), ends |-> Reverse(st.ends),
         offsets |-> Reverse(st.offsets), not_found |-> st.not_found,
         tracker |-> [t EXCEPT !.final_character_count = SumLen(st.items)]]

\* extract_all_paragraphs(full_text, page_boundaries, tracker)
extract_all_paragraphs(full_text, boundaries, t) ==
    LET st == ParagraphLoop(full_text, boundaries, Split(full_text, NL), 1, <<>>,
                  [items |-> <<>>, starts |-> <<>>, ends |-> <<>>,
                   offsets |-> <<>>, not_found |-> 0, char_start |-> 0])
    IN  [items |-> st.items, starts |-> st.starts, ends |-> st.ends,
         offsets |-> st.offsets, not_found |-> st.not_found,
         tracker |-> [t EXCEPT !.final_character_count = SumLen(st.items)]]

(***************************************************************************)
(* Inputs of the segmenter specification                                   *)
(***************************************************************************)
MaxPieces == 3

MaxSegPages == 2

BoundaryLow == 13

BoundaryHigh == 30

\* "This is long. "
P_long ==
    <<"T", "h", "i", "s", " ", "i", "s", " ", "l", "o", "n", "g", ".", " ">>
\* "Hi. "
P_hi ==
    <<"H", "i", ".", " ">>
\* "This is also long enough."
P_also ==
    <<"T", "h", "i", "s", " ", "i", "s", " ", "a", "l", "s", "o", " ", "l",
      "o", "n", "g", " ", "e", "n", "o", "u", "g", "h", ".">>
\* "2. Methods\n"
P_header ==
    <<"2", ".", " ", "M", "e", "t", "h", "o", "d", "s", "\n">>
\* "1234567890"
P_digits ==
    <<"1", "2", "3", "4", "5", "6", "7", "8", "9", "0">>
\* "This is long."
U_long ==
    <<"T", "h", "i", "s", " ", "i", "s", " ", "l", "o", "n", "g", ".">>
\* "Hi."
U_hi ==
    <<"H", "i", ".">>
\* "This is long. Hi. This is also long enough."
T_sentences_scenario ==
    <<"T", "h", "i", "s", " ", "i", "s", " ", "l", "o", "n", "g", ".", " ",
      "H", "i", ".", " ", "T", "h", "i", "s", " ", "i", "s", " ", "a", "l",
      "s", "o", " ", "l", "o", "n", "g", " ", "e", "n", "o", "u", "g", "h",
      ".">>

\* "42\n"
P_42 ==
    <<"4", "2", "\n">>
\* "This is also long enough."
U_also ==
    <<"T", "h", "i", "s", " ", "i", "s", " ", "a", "l", "s", "o", " ", "l",
      "o", "n", "g", " ", "e", "n", "o", "u", "g", "h", ".">>
\* "42"
U_42 ==
    <<"4", "2">>
Pieces == {P_long, P_hi, P_also, P_42, P_header, P_digits}

RECURSIVE Concat(_)
Concat(parts) == IF parts = <<>> THEN <<>> ELSE Head(parts) \o Concat(Tail(parts))

\* "This is also long enough.\n2. Methods\nThis is also long enough."
T_two_paragraphs == P_also \o <<NL>> \o P_header \o P_also

SegTexts ==
    {<<>>} \cup {Concat(ps) : ps \in SeqsUpTo(Pieces, MaxPieces)}
    \cup {T_sentences_scenario, T_two_paragraphs}

SegTables == TablesOver({0, BoundaryLow, BoundaryHigh}, MaxSegPages)

(***************************************************************************)
(* SpecSeg: one call of extract_sentences or of extract_all_paragraphs     *)
(***************************************************************************)
InitSeg ==
    /\ pc = "segment"
    /\ text \in SegTexts
    /\ page_boundaries \in SegTables
    /\ tracker = NewTracker
    /\ tracker0 = NewTracker
    /\ page_num = 0
    /\ position = 0
    /\ result = <<>>
    /\ input = <<>>
    /\ NoObjects

ExtractSentencesCall ==
    /\ pc = "segment"
    /\ LET r == extract_sentences(text, page_boundaries, tracker)
       IN  /\ result' = [items |-> r.items, starts |-> r.starts, ends |-> r.ends,
                         offsets |-> r.offsets, not_found |-> r.not_found]
           /\ tracker' = r.tracker
    /\ pc' = "sentences"
    /\ UNCHANGED <<tracker0, text, page_num, page_boundaries, position, input, converter,
                   session_state>>

ExtractAllParagraphsCall ==
    /\ pc = "segment"
    /\ LET r == extract_all_paragraphs(text, page_boundaries, tracker)
       IN  /\ result' = [items |-> r.items, starts |-> r.starts, ends |-> r.ends,
                         offsets |-> r.offsets, not_found |-> r.not_found]
           /\ tracker' = r.tracker
    /\ pc' = "paragraphs"
    /\ UNCHANGED <<tracker0, text, page_num, page_boundaries, position, input, converter,
                   session_state>>

NextSeg == ExtractSentencesCall \/ ExtractAllParagraphsCall

SpecSeg == InitSeg /\ [][NextSeg]_vars

\* The fragments as the claim words them: the text is cut after every
\* '.', '!' or '?' that whitespace follows, and each piece is trimmed
C7_Fragments(txt) ==
    LET ends == AscendingSeq({i \in 1..(Len(txt) - 1) :
                                 IsTerminal(txt[i]) /\ IsSpace(txt[i + 1])}
                             \cup {Len(txt)})
    IN  [j \in 1..Len(ends) |->
            Strip(SubSeq(txt, IF j = 1 THEN 1 ELSE ends[j - 1] + 1, ends[j]))]

C7_DigitsOnly(f) == Len(f) >= 1 /\ \A i \in 1..Len(f) : IsDigit(f[i])

C7_Kind(f) ==
    IF Len(f) < 10 THEN "short_line"
    ELSE IF C7_DigitsOnly(f) THEN "page_number"
    ELSE "unit"

C7_IsUnit(f) == C7_Kind(f) = "unit"

C7_IsDropped(f) == C7_Kind(f) # "unit"

C8_StartPageAtMostEndPage ==
    pc \in {"sentences", "paragraphs"} =>
        /\ Len(result.items) = Len(result.starts)
        /\ Len(result.items) = Len(result.ends)
        /\ \A i \in 1..Len(result.items) : result.starts[i] <= result.ends[i]

\* C8 witness: the scenario text has been segmented under the table
\* [0, 13, 30]: both units end on the page after the one they start on
C8_Witness ==
    /\ pc = "sentences"
    /\ text = T_sentences_scenario
    /\ page_boundaries = <<0, BoundaryLow, BoundaryHigh>>
    /\ result.starts = <<0, 1>>
    /\ result.ends = <<1, 2>>

\* A paragraph that spans two pages has been returned as well
C8_ParagraphSpansPages ==
    /\ pc = "paragraphs"
    /\ Len(result.items) >= 1
    /\ \E i \in 1..Len(result.items) : result.starts[i] < result.ends[i]

(***************************************************************************)
(* extract_and_clean (pdftools/pdftext_utils.py) and a complete run        *)
(***************************************************************************)

\* What page.extract_text() returned: None, or a str
NoneText == [none |-> TRUE, str |-> <<>>]

StrText(s) == [none |-> FALSE, str |-> s]

\* A mutation of the page test: `if text is not None:`, "" taken for text
HasText_not_none(page_text) ==
    ~page_text.none

\* `if text:`
HasText(page_text) ==
    ~page_text.none /\ page_text.str # <<>>

\* The element of a one-element set: {e(x) : x \in {v}} computes v once
\* for all its uses in e
TheOne(S) == CHOOSE x \in S : TRUE

RECURSIVE PageLoop(_, _, _, _, _)
\* for page_num, page in enumerate(reader.pages): n is page_num + 1
PageLoop(pages, n, full_text, boundaries, t) ==
    IF n > Len(pages)
    THEN [full_text |-> full_text, page_boundaries |-> boundaries,
          tracker |-> t]
    ELSE IF HasText(pages[n])
         THEN TheOne({PageLoop(pages, n + 1, grown,
                               Append(boundaries, Len(grown)), r.tracker) :
                      <<r, grown>> \in
                         {<<c, full_text \o c.text \o <<NL>>>> :
                             c \in {clean_page_text(pages[n].str, n - 1, t)}}})
         ELSE PageLoop(pages, n + 1, full_text,
                       Append(boundaries, Len(full_text)), t)

\* A mutation of extract_and_clean: original_character_count is taken
\* before the loop
extract_and_clean_early_count(pages, t) ==
    TheOne({[full_text |-> r.text, page_boundaries |-> l.page_boundaries,
             tracker |-> r.tracker] :
            <<l, r>> \in
               UNION {{<<pl, remove_references(pl.full_text, pl.tracker)>>} :
                      pl \in {PageLoop(pages, 1, <<>>, <<0>>,
                                 [t EXCEPT !.original_character_count = 0])}}})

\* A mutation of extract_and_clean: original_character_count is taken
\* after the references are removed
extract_and_clean_late_count(pages, t) ==
    TheOne({[full_text |-> r.text, page_boundaries |-> l.page_boundaries,
             tracker |-> [r.tracker EXCEPT !.original_character_count =
                                              Len(r.text)]] :
            <<l, r>> \in
               UNION {{<<pl, remove_references(pl.full_text, pl.tracker)>>} :
                      pl \in {PageLoop(pages, 1, <<>>, <<0>>, t)}}})

\* extract_and_clean(pdf_path, tracker), pages being reader.pages
extract_and_clean(pages, t) ==
    TheOne({[full_text |-> r.text, page_boundaries |-> l.page_boundaries,
             tracker |-> r.tracker] :
            <<l, r>> \in
               UNION {{<<pl, remove_references(pl.full_text,
                             [pl.tracker EXCEPT !.original_character_count =
                                                   Len(pl.full_text)])>>} :
                      pl \in {PageLoop(pages, 1, <<>>, <<0>>, t)}}})

\* Bound: pages of a document
MaxRunPages == 2

\* "This is long. Hi.\n42"
G_body == Join(<<P_long \o U_hi, U_42>>, NL)

\* "2. Methods\nThis is also long enough."
G_also == P_header \o U_also

\* "References\n[1] A"
G_refs == Join(<<L_References, L_ref1>>, NL)

\* "12\n---": a page of which no line is kept
G_noise ==
    <<"1", "2", "\n", "-", "-", "-">>

RunPageTexts ==
    {NoneText, StrText(<<>>), StrText(L_blank), StrText(G_body),
     StrText(G_also), StrText(G_refs), StrText(G_noise)}

(***************************************************************************)
(* SpecRun: extract_and_clean on a fresh ledger, then one segmenter        *)
(***************************************************************************)
InitRun ==
    /\ pc = "run"
    /\ input \in [pages : {<<>>} \cup SeqsUpTo(RunPageTexts, MaxRunPages)]
    /\ NoObjects
    /\ tracker = NewTracker
    /\ tracker0 = NewTracker
    /\ text = <<>>
    /\ page_num = 0
    /\ page_boundaries = <<0>>
    /\ position = 0
    /\ result = <<>>

ExtractAndCleanCall ==
    /\ pc = "run"
    /\ \E r \in {extract_and_clean(input.pages, tracker)} :
          /\ text' = r.full_text
          /\ page_boundaries' = r.page_boundaries
          /\ tracker' = r.tracker
    /\ pc' = "segment"
    /\ UNCHANGED <<tracker0, page_num, position, result, input, converter,
                   session_state>>

NextRun ==
    ExtractAndCleanCall \/ ExtractSentencesCall \/ ExtractAllParagraphsCall

SpecRun == InitRun /\ [][NextRun]_vars

\* C11: a run over a document with zero pages ends with an empty unit list
\* and a ledger whose every counter is zero: the nine category counters,
\* total_lines_discarded, total_lines_processed, both character counts, and
\* no record.
C11_ZeroPagesAllZeroLedger ==
    (pc \in {"sentences", "paragraphs"} /\ input.pages = <<>>) =>
        /\ result.items = <<>>
        /\ tracker = NewTracker

\* The paragraph path alone does leave the ledger all zero
C11_ParagraphRunAllZero ==
    (pc = "paragraphs" /\ input.pages = <<>>) =>
        /\ result.items = <<>>
        /\ tracker = NewTracker

(***************************************************************************)
(* DiscardTracker.get_statistics (discard_tracker.py)                      *)
(*                                                                         *)
(* A percentage is carried in hundredths: 33.33 is 3333.                   *)
(***************************************************************************)

\* A mutation of the guard: `... if n >= 0 else 0`
DivisionGuard_nonneg(n) ==
    n >= 0

\* `... if n > 0 else 0`
DivisionGuard(n) ==
    n > 0

\* round(num / den * 100, 2) for den > 0, in hundredths: the hundredth
\* nearest to 100*num/den.  Where 100*num/den lies exactly half way between
\* two hundredths the binary floating-point product decides between them
\* (23/160*100 is 14.375000000000002), so both neighbours are outcomes.
RoundedPercent(num, den) ==
    LET mag == IF num < 0 THEN 0 - num ELSE num
        q == (10000 * mag) \div den
        twice_rem == 2 * (10000 * mag - q * den)
        near == IF twice_rem < den THEN {q}
                ELSE IF twice_rem > den THEN {q + 1}
                ELSE {q, q + 1}
    IN  {IF num < 0 THEN 0 - v ELSE v : v \in near}

\* get_statistics(self): the dictionaries the call can return, or the
\* ZeroDivisionError a division by zero raises
get_statistics(t) ==
    LET char_reduction == t.original_character_count - t.final_character_count
        divides_lines == DivisionGuard(t.total_lines_processed)
        divides_chars == DivisionGuard(t.original_character_count)
    IN  IF \/ divides_lines /\ t.total_lines_processed = 0
           \/ divides_chars /\ t.original_character_count = 0
        THEN {[raised |-> "ZeroDivisionError"]}
        ELSE {[raised |-> "",
               total_lines_processed |-> t.total_lines_processed,
               total_lines_discarded |-> t.total_lines_discarded,
               discard_rate_percent |-> discard_rate,
               original_characters |-> t.original_character_count,
               final_characters |-> t.final_character_count,
               characters_discarded |-> char_reduction,
               character_reduction_percent |-> char_reduction_percent] :
              discard_rate \in
                 (IF divides_lines
                  THEN RoundedPercent(t.total_lines_discarded,
                                      t.total_lines_processed)
                  ELSE {0}),
              char_reduction_percent \in
                 (IF divides_chars
                  THEN RoundedPercent(char_reduction,
                                      t.original_character_count)
                  ELSE {0})}

\* Bounds: lines processed and discarded, characters counted
MaxStatLines == 4

MaxStatChars == 3

RECURSIVE WithDiscards(_, _)
\* n further add_discard calls
WithDiscards(t, n) ==
    IF n = 0 THEN t
    ELSE WithDiscards(add_discard(t, "short_line", S_x, 0, 0, <<>>), n - 1)

\* A ledger with the given counts
LedgerWith(processed, discarded, original, final) ==
    [WithDiscards(NewTracker, discarded) EXCEPT
        !.total_lines_processed = processed,
        !.original_character_count = original,
        !.final_character_count = final]

\* 1 of 3 lines discarded, 67 of 100 characters left; 1 of 32 lines
\* discarded (3.125 percent, half way between 3.12 and 3.13); 20 of 100
StatScenarios ==
    {LedgerWith(3, 1, 100, 67), LedgerWith(32, 1, 0, 0),
     LedgerWith(100, 20, 10000, 8000)}

(***************************************************************************)
(* SpecStats: one call of get_statistics                                   *)
(***************************************************************************)
InitStats ==
    /\ pc = "ledger"
    /\ tracker \in StatScenarios \cup
          {LedgerWith(p, d, o, f) : p \in 0..MaxStatLines,
                                    d \in 0..MaxStatLines,
                                    o \in 0..MaxStatChars,
                                    f \in 0..MaxStatChars}
    /\ tracker0 = tracker
    /\ text = <<>>
    /\ page_num = 0
    /\ page_boundaries = <<0>>
    /\ position = 0
    /\ result = <<>>
    /\ input = <<>>
    /\ NoObjects

GetStatisticsCall ==
    /\ pc = "ledger"
    /\ result' \in get_statistics(tracker)
    /\ pc' = "stats"
    /\ UNCHANGED <<tracker, tracker0, text, page_num, page_boundaries,
                   position, input, converter,
                   session_state>>

NextStats == GetStatisticsCall

SpecStats == InitStats /\ [][NextStats]_vars

\* C14: get_statistics never divides by zero: discard_rate_percent is 0 when
\* total_lines_processed is 0 and character_reduction_percent is 0 when
\* original_character_count is 0; when total_lines_processed > 0,
\* discard_rate_percent is 100*total_lines_discarded/total_lines_processed
\* rounded to 2 decimals, i.e. within half a hundredth of it (1 of 3 gives
\* 33.33).
C14_RatesGuardedAndRounded ==
    pc = "stats" =>
        /\ result.raised = ""
        /\ tracker.total_lines_processed = 0 => result.discard_rate_percent = 0
        /\ tracker.original_character_count = 0 =>
              result.character_reduction_percent = 0
        /\ tracker.total_lines_processed > 0 =>
              LET exact == 10000 * tracker.total_lines_discarded
                  got == result.discard_rate_percent
                             * tracker.total_lines_processed
              IN  /\ 2 * (got - exact) <= tracker.total_lines_processed
                  /\ 2 * (exact - got) <= tracker.total_lines_processed
        /\ (/\ tracker.total_lines_processed = 3
            /\ tracker.total_lines_discarded = 1) =>
              result.discard_rate_percent = 3333

\* C14 witness: statistics have been taken of a ledger with no line
\* processed and no character counted, and both rates came out 0
C14_Witness ==
    /\ pc = "stats"
    /\ tracker.total_lines_processed = 0
    /\ tracker.original_character_count = 0
    /\ tracker.total_lines_discarded > 0
    /\ result.raised = ""
    /\ result.discard_rate_percent = 0
    /\ result.character_reduction_percent = 0

\* Statistics have been taken where 1 of 3 lines was discarded: 33.33
C14_OneOfThree ==
    /\ pc = "stats"
    /\ tracker.total_lines_processed = 3
    /\ tracker.total_lines_discarded = 1
    /\ result.discard_rate_percent = 3333

\* C12: at the end of every complete run final_character_count <=
\* original_character_count, so the characters_discarded get_statistics
\* reports is never negative.
C12_FinalAtMostOriginal ==
    pc \in {"sentences", "paragraphs"} =>
        /\ tracker.final_character_count <= tracker.original_character_count
        /\ \A stats \in get_statistics(tracker) :
              /\ stats.raised = ""
              /\ stats.characters_discarded >= 0

\* C12 witness: a run over a body page and a references page has ended
\* with one sentence: 13 characters left of the 35 counted
C12_Witness ==
    /\ pc = "sentences"
    /\ input.pages = <<StrText(G_body), StrText(G_refs)>>
    /\ result.items = <<U_long>>
    /\ tracker.original_character_count = 35
    /\ tracker.final_character_count = 13

\* The lines a page contributes: none when its text is None or empty
C17_LinesOf(page_text) ==
    IF page_text.none \/ page_text.str = <<>> THEN <<>>
    ELSE Split(page_text.str, NL)

\* The indices of its lines that are not blank
C17_NonBlankLines(page_text) ==
    {k \in 1..Len(C17_LinesOf(page_text)) :
        C2_NonBlank(C17_LinesOf(page_text)[k])}

\* C17: the table extract_and_clean returns for n pages has n + 1 entries,
\* starts with 0 and never decreases; a page whose text is None or empty
\* repeats the previous entry and adds nothing to total_lines_processed nor
\* to the records.
C17_PageBoundaryTable ==
    pc = "segment" =>
        LET n == Len(input.pages)
            nonblank == UNION {{<<i, k>> : k \in C17_NonBlankLines(input.pages[i])} :
                               i \in 1..n}
        IN  /\ Len(page_boundaries) = n + 1
            /\ page_boundaries[1] = 0
            /\ \A i \in 1..n : page_boundaries[i] <= page_boundaries[i + 1]
            /\ \A i \in 1..n :
                  (input.pages[i].none \/ input.pages[i].str = <<>>) =>
                      /\ page_boundaries[i + 1] = page_boundaries[i]
                      /\ \A j \in 1..Len(tracker.discarded_items) :
                            LET item == tracker.discarded_items[j]
                            IN  item.page_number = i - 1 =>
                                   item.discard_type \in
                                      {"references_section",
                                       "bibliography_entry"}
            /\ tracker.total_lines_processed = Cardinality(nonblank)

\* C17 witness: the table of a document whose first page has no text and
\* whose second is the body page
C17_Witness ==
    /\ pc = "segment"
    /\ input.pages = <<NoneText, StrText(G_body)>>
    /\ page_boundaries = <<0, 0, 18>>
    /\ tracker.total_lines_processed = 2
    /\ Len(tracker.discarded_items) = 1

\* The table of a document whose second page has the empty text
C17_EmptyPageRepeats ==
    /\ pc = "segment"
    /\ input.pages = <<StrText(G_body), StrText(<<>>)>>
    /\ page_boundaries = <<0, 18, 18>>

\* A ledger a complete run has already written its character counts to
StaleTracker ==
    [UsedTracker EXCEPT !.original_character_count = 40,
                        !.final_character_count = 25]

(***************************************************************************)
(* SpecFinal: a segmenter called with a fresh or an already used ledger    *)
(***************************************************************************)
InitFinal ==
    /\ pc = "segment"
    /\ text \in SegTexts
    /\ page_boundaries = <<0, BoundaryLow>>
    /\ tracker \in {NewTracker, StaleTracker}
    /\ tracker0 = tracker
    /\ page_num = 0
    /\ position = 0
    /\ result = <<>>
    /\ input = <<>>
    /\ NoObjects

SpecFinal == InitFinal /\ [][NextSeg]_vars

\* C13: when extract_sentences or extract_all_paragraphs returns,
\* final_character_count is the sum of the lengths of the units returned
\* (0 when there are none), whatever was stored there before.
C13_FinalIsSumOfUnitLengths ==
    pc \in {"sentences", "paragraphs"} =>
        tracker.final_character_count =
            Cardinality({<<i, j>> \in (1..Len(text)) \X (1..Len(text)) :
                            /\ i <= Len(result.items)
                            /\ j <= Len(result.items[i])})

\* C13 witness: the scenario text has been segmented with a ledger that
\* held 25: the count is now that of the two units, 13 + 25
C13_Witness ==
    /\ pc = "sentences"
    /\ tracker0 = StaleTracker
    /\ result.items = <<U_long, U_also>>
    /\ tracker.final_character_count = 38

\* No unit returned with a ledger that held 25: the count is now 0
C13_NoUnitCountsZero ==
    /\ pc \in {"sentences", "paragraphs"}
    /\ tracker0 = StaleTracker
    /\ result.items = <<>>
    /\ tracker.final_character_count = 0

(***************************************************************************)
(* SpecReclean: clean_page_text, then clean_page_text on what it returned  *)
(***************************************************************************)
ReCleanCall ==
    /\ pc = "cleaned"
    /\ LET r == clean_page_text(result, page_num, tracker)
       IN  /\ result' = r.text
           /\ tracker' = r.tracker
    /\ pc' = "recleaned"
    /\ UNCHANGED <<tracker0, text, page_num, page_boundaries, position, input, converter,
                   session_state>>

NextReclean == CleanPageTextCall \/ ReCleanCall

SpecReclean == InitClean /\ [][NextReclean]_vars

\* C18: clean_page_text run on a text it returned adds no discard record
\* (no record, no category counter, no total_lines_discarded) and returns
\* that text unchanged.
C18_CleanIsIdempotent ==
    [][(pc = "cleaned" /\ pc' = "recleaned") =>
          /\ result' = result
          /\ tracker'.discarded_items = tracker.discarded_items
          /\ tracker'.total_lines_discarded = tracker.total_lines_discarded
          /\ \A d \in DiscardType : CounterOf(tracker', d) = CounterOf(tracker, d)]_vars

\* C18 witness: "Introduction\n1\nBody text" cleaned twice: the one record
\* of the first pass, and the two kept lines counted by each pass
C18_Witness ==
    /\ pc = "recleaned"
    /\ text = T_scenario
    /\ tracker0 = NewTracker
    /\ result = R_scenario
    /\ Len(tracker.discarded_items) = 1
    /\ tracker.total_lines_processed = 5

\* The line with runs of spaces cleaned twice
C18_CollapsedTwice ==
    /\ pc = "recleaned"
    /\ text = L_wide
    /\ result = <<" ", "a", " ", "b", " ", "c">>

(***************************************************************************)
(* Inputs of the paragraph specification: lines as clean_page_text keeps   *)
(* them, untrimmed and with single spaces                                  *)
(***************************************************************************)
\* Bound: lines of a text
MaxParaLines == 3

\* "Some body text here."
A_body ==
    <<"S", "o", "m", "e", " ", "b", "o", "d", "y", " ", "t", "e", "x", "t",
      " ", "h", "e", "r", "e", ".">>

\* "1. Intro"
A_intro ==
    <<"1", ".", " ", "I", "n", "t", "r", "o">>

\* " 1234. Methods"
A_padded ==
    <<" ", "1", "2", "3", "4", ".", " ", "M", "e", "t", "h", "o", "d", "s">>

\* " 3.1 Results"
A_sub ==
    <<" ", "3", ".", "1", " ", "R", "e", "s", "u", "l", "t", "s">>

\* "12345. six"
A_late ==
    <<"1", "2", "3", "4", "5", ".", " ", "s", "i", "x">>

\* "short"
A_short ==
    <<"s", "h", "o", "r", "t">>

\* "1. Intro\nSome body text here."
R_intro_body ==
    <<"1", ".", " ", "I", "n", "t", "r", "o", "\n", "S", "o", "m", "e", " ",
      "b", "o", "d", "y", " ", "t", "e", "x", "t", " ", "h", "e", "r", "e",
      ".">>

\* "1234.abcdefghij"
A_head ==
    <<"1", "2", "3", "4", ".", "a", "b", "c", "d", "e", "f", "g", "h", "i",
      "j">>

\* "x1234.abcdefghij"
A_echo == <<"x">> \o A_head

\* "1234"
A_1234 ==
    <<"1", "2", "3", "4">>

ParaLineSamples ==
    {<<>>, A_body, A_intro, A_padded, A_sub, A_late, A_short, A_head, A_echo,
     A_1234}

ParaTexts == {Join(ls, NL) : ls \in SeqsUpTo(ParaLineSamples, MaxParaLines)}

(***************************************************************************)
(* SpecPara: one call of extract_all_paragraphs                            *)
(***************************************************************************)
InitPara ==
    /\ pc = "segment"
    /\ text \in ParaTexts
    /\ page_boundaries = <<0, BoundaryLow>>
    /\ tracker \in {NewTracker, UsedTracker}
    /\ tracker0 = tracker
    /\ page_num = 0
    /\ position = 0
    /\ result = <<>>
    /\ input = <<>>
    /\ NoObjects

NextPara == ExtractAllParagraphsCall

SpecPara == InitPara /\ [][NextPara]_vars

\* A header as the claim words it: the trimmed content begins with a digit
\* and has a '.' within its first five characters
C15_IsHeader(line) ==
    LET content == Strip(line)
    IN  /\ content # <<>>
        /\ IsDigit(content[1])
        /\ \E j \in 1..5 : j <= Len(content) /\ content[j] = "."

\* The same with the '.' looked for in the first five characters of the
\* line as it stands, leading blanks included
C15_IsHeaderUntrimmed(line) ==
    LET content == Strip(line)
    IN  /\ content # <<>>
        /\ IsDigit(content[1])
        /\ \E j \in 1..5 : j <= Len(line) /\ line[j] = "."

\* The paragraphs of a text when a new group starts at every header line
\* but the first line: each group joined and trimmed, those of 20
\* characters or more in order
C15_Paragraphs(txt, IsHeaderLine(_)) ==
    LET lines == Split(txt, NL)
        n == Len(lines)
        first == AscendingSeq({1} \cup {k \in 2..n : IsHeaderLine(lines[k])})
        last(j) == IF j = Len(first) THEN n ELSE first[j + 1] - 1
        candidates == [j \in 1..Len(first) |->
                          Strip(Join(SubSeq(lines, first[j], last(j)), NL))]
    IN  SelectSeq(candidates, LAMBDA c : Len(c) >= 20)

\* C15: extract_all_paragraphs starts a new paragraph at a line exactly
\* when the line's trimmed content begins with a digit, a '.' occurs within
\* the first five characters of that trimmed content, and a line has
\* already been accumulated; the accumulated lines are flushed without the
\* header line, which becomes the first line of the next paragraph; a
\* header that is the very first line causes no flush, and the last group
\* is flushed at end of input.
C15_NewParagraphAtTrimmedHeader ==
    pc = "paragraphs" => result.items = C15_Paragraphs(text, C15_IsHeader)

\* What the paragraphs are: the groups when the '.' is looked for in the
\* first five characters of the untrimmed line
C15_GroupsByUntrimmedWindow ==
    pc = "paragraphs" =>
        result.items = C15_Paragraphs(text, C15_IsHeaderUntrimmed)

\* " 1234. Methods" after a body line has not started a paragraph
C15_PaddedHeaderNotSplit ==
    /\ pc = "paragraphs"
    /\ text = Join(<<A_body, A_padded, A_body>>, NL)
    /\ Len(result.items) = 1

DigitChars == <<"0", "1", "2", "3", "4", "5", "6", "7", "8", "9">>

DigitValue(c) == (CHOOSE i \in 1..Len(DigitChars) : DigitChars[i] = c) - 1

RECURSIVE DigitsValue(_, _)
\* The decimal value of the digits s, acc being that of the digits read
DigitsValue(s, acc) ==
    IF s = <<>> THEN acc
    ELSE DigitsValue(Tail(s), 10 * acc + DigitValue(Head(s)))

\* int(s) for the characters of the page specifications: blanks around
\* the literal are skipped, one sign may lead, at least one digit follows;
\* anything else raises ValueError
IntOf(s) ==
    LET literal == Strip(s)
        signed == literal # <<>> /\ Head(literal) \in {"+", "-"}
        digits == IF signed THEN Tail(literal) ELSE literal
    IN  IF digits # <<>> /\ \A i \in 1..Len(digits) : IsDigit(digits[i])
        THEN [raised |-> "",
              value |-> IF signed /\ Head(literal) = "-"
                        THEN 0 - DigitsValue(digits, 0)
                        ELSE DigitsValue(digits, 0)]
        ELSE [raised |-> "ValueError", value |-> 0]

\* A mutation of the range conversion: range(start - 1, end - 1)
PageRange_exclusive(start, end) ==
    (start - 1)..(end - 2)

\* range(start - 1, end)
PageRange(start, end) ==
    (start - 1)..(end - 1)

\* One non-empty part of the input: the pages it adds, or the ValueError
\* its try block re-raises
ParsePart(part, total_pages) ==
    LET dash == IndexOf(part, "-", 1)
        failed == [raised |-> "ValueError", pages |-> {}]
    IN  IF dash # 0
        THEN LET start == IntOf(Take(part, dash - 1))
                 end == IntOf(Drop(part, dash))
             IN  IF start.raised # "" \/ end.raised # "" THEN failed
                 ELSE IF start.value < 1 \/ end.value < 1 THEN failed
                 ELSE IF start.value > total_pages \/ end.value > total_pages
                 THEN failed
                 ELSE IF start.value > end.value THEN failed
                 ELSE [raised |-> "",
                       pages |-> PageRange(start.value, end.value)]
        ELSE LET page == IntOf(part)
             IN  IF page.raised # "" THEN failed
                 ELSE IF page.value < 1 THEN failed
                 ELSE IF page.value > total_pages THEN failed
                 ELSE [raised |-> "", pages |-> {page.value - 1}]

RECURSIVE ParseLoop(_, _, _, _)
\* for part in page_input.split(","), parts[n:] still to do
ParseLoop(parts, n, pages, total_pages) ==
    IF n > Len(parts) THEN [raised |-> "", pages |-> pages]
    ELSE LET part == Strip(parts[n])
         IN  IF part = <<>> THEN ParseLoop(parts, n + 1, pages, total_pages)
             ELSE LET r == ParsePart(part, total_pages)
                  IN  IF r.raised # "" THEN r
                      ELSE ParseLoop(parts, n + 1, pages \cup r.pages,
                                     total_pages)

\* parse_page_numbers(page_input, total_pages)
parse_page_numbers(page_input, total_pages) ==
    LET r == ParseLoop(Split(page_input, ","), 1, {}, total_pages)
    IN  IF r.raised # "" THEN r
        ELSE IF r.pages = {} THEN [raised |-> "ValueError", pages |-> {}]
        ELSE r

\* The except clauses that close remove_pages' try block
Reraised(raised) ==
    IF raised = "FileNotFoundError" THEN raised ELSE "RuntimeError"

\* The pages of range(total_pages) the loop keeps, in the loop's order
KeptPages(total_pages, pages_idx, unreadable) ==
    AscendingSeq({p \in 0..(total_pages - 1) :
                     p \notin pages_idx /\ p \notin unreadable})

\* remove_pages(input_file, output_file, pages_to_remove); file tells
\* whether input_file is missing, not a .pdf, or a PDF of total_pages
\* pages, unreadable holds the pages writer.add_page fails on, and write_ok
\* whether the output can be written
remove_pages(file, total_pages, pages_to_remove, unreadable, write_ok) ==
    LET failed(raised) == [raised |-> raised, pages_kept |-> 0, added |-> <<>>]
        kept(pages_idx) ==
            TheOne({[raised |-> "", pages_kept |-> Len(added), added |-> added] :
                    added \in {KeptPages(total_pages, pages_idx, unreadable)}})
    IN  IF file = "missing" THEN failed("FileNotFoundError")
        ELSE IF file = "not_pdf" THEN failed("ValueError")
        ELSE IF total_pages = 0 THEN failed(Reraised("ValueError"))
        ELSE TheOne({IF parsed.raised # ""
                     THEN failed(Reraised(parsed.raised))
                     ELSE IF ~write_ok THEN failed(Reraised("OSError"))
                     ELSE kept(parsed.pages) :
                     parsed \in {parse_page_numbers(pages_to_remove,
                                                    total_pages)}})

\* Bounds: pages of the PDF, parts of a page specification
MaxTotalPages == 3

MaxSpecParts == 2

MaxRemoveParts == 2

\* "1"
N_1 ==
    <<"1">>

\* "3"
N_3 ==
    <<"3">>

\* "4"
N_4 ==
    <<"4">>

\* "0"
N_0 ==
    <<"0">>

\* " 2 "
N_2pad ==
    <<" ", "2", " ">>

\* "x"
N_x ==
    <<"x">>

\* "+1"
N_plus1 ==
    <<"+", "1">>

\* "1-3"
N_1_3 ==
    <<"1", "-", "3">>

\* "3-1"
N_3_1 ==
    <<"3", "-", "1">>

\* "2 - 3"
N_2_3pad ==
    <<"2", " ", "-", " ", "3">>

\* "1-"
N_1_ ==
    <<"1", "-">>

\* "-1"
N__1 ==
    <<"-", "1">>

\* "1--3"
N_1__3 ==
    <<"1", "-", "-", "3">>

\* "1-2-3"
N_1_2_3 ==
    <<"1", "-", "2", "-", "3">>

\* "2-4"
N_2_4 ==
    <<"2", "-", "4">>

\* " "
N_blank ==
    <<" ">>

\* "1,3-3, 2 ,1"
N_mixed ==
    <<"1", ",", "3", "-", "3", ",", " ", "2", " ", ",", "1">>

PartSamples ==
    {<<>>, N_blank, N_1, N_3, N_4, N_0, N_2pad, N_x, N_plus1, N_1_3, N_3_1,
     N_2_3pad, N_1_, N__1, N_1__3, N_1_2_3, N_2_4}

PageInputs ==
    {Join(ls, ",") : ls \in SeqsUpTo(PartSamples, MaxSpecParts)}
    \cup {N_mixed}

RemovePartSamples == {<<>>, N_1, N_3, N_4, N_2pad, N_x, N_1_3, N_3_1}

RemoveInputs ==
    {Join(ls, ",") : ls \in SeqsUpTo(RemovePartSamples, MaxRemoveParts)}

(***************************************************************************)
(* SpecParse: one call of parse_page_numbers                               *)
(***************************************************************************)
InitParse ==
    /\ pc = "parse"
    /\ input \in [page_input : PageInputs, total_pages : 0..MaxTotalPages]
    /\ NoObjects
    /\ tracker = NewTracker
    /\ tracker0 = NewTracker
    /\ text = <<>>
    /\ page_num = 0
    /\ page_boundaries = <<0>>
    /\ position = 0
    /\ result = <<>>

ParsePageNumbersCall ==
    /\ pc = "parse"
    /\ result' = parse_page_numbers(input.page_input, input.total_pages)
    /\ pc' = "parsed"
    /\ UNCHANGED <<tracker, tracker0, text, page_num, page_boundaries,
                   position, input, converter,
                   session_state>>

NextParse == ParsePageNumbersCall

SpecParse == InitParse /\ [][NextParse]_vars

(***************************************************************************)
(* SpecRemove: one call of remove_pages                                    *)
(***************************************************************************)
InitRemove ==
    /\ pc = "remove"
    /\ NoObjects
    /\ input \in [file : {"missing", "not_pdf", "pdf"},
                  total_pages : 0..MaxTotalPages,
                  pages_to_remove : RemoveInputs,
                  unreadable : {{}, {1}},
                  write_ok : BOOLEAN]
    /\ tracker = NewTracker
    /\ tracker0 = NewTracker
    /\ text = <<>>
    /\ page_num = 0
    /\ page_boundaries = <<0>>
    /\ position = 0
    /\ result = <<>>

RemovePagesCall ==
    /\ pc = "remove"
    /\ result' = remove_pages(input.file, input.total_pages,
                              input.pages_to_remove, input.unreadable,
                              input.write_ok)
    /\ pc' = "removed"
    /\ UNCHANGED <<tracker, tracker0, text, page_num, page_boundaries,
                   position, input, converter,
                   session_state>>

NextRemove == RemovePagesCall

SpecRemove == InitRemove /\ [][NextRemove]_vars

\* The value of a decimal digit, and of a string of digits
C19_Digit ==
    [c \in {"0", "1", "2", "3", "4", "5", "6", "7", "8", "9"} |->
        CASE c = "0" -> 0 [] c = "1" -> 1 [] c = "2" -> 2 [] c = "3" -> 3
          [] c = "4" -> 4 [] c = "5" -> 5 [] c = "6" -> 6 [] c = "7" -> 7
          [] c = "8" -> 8 [] c = "9" -> 9]

RECURSIVE C19_Decimal(_)
C19_Decimal(digits) ==
    IF digits = <<>> THEN 0
    ELSE 10 * C19_Decimal(SubSeq(digits, 1, Len(digits) - 1))
         + C19_Digit[digits[Len(digits)]]

\* A number: digits, a '+' allowed in front, blanks around ignored
C19_Digits(s) ==
    LET n == Strip(s)
    IN  IF n # <<>> /\ n[1] = "+" THEN Tail(n) ELSE n

C19_IsNumber(s) ==
    /\ C19_Digits(s) # <<>>
    /\ \A i \in 1..Len(C19_Digits(s)) : IsDigit(C19_Digits(s)[i])

\* The 1-based pages a part names when it is a number or a range a-b, cut
\* at its first '-', within 1..total_pages; {} when it is not one
C19_PagesOf(part, total_pages) ==
    LET dashes == {k \in 1..Len(part) : part[k] = "-"}
    IN  IF dashes = {}
        THEN IF C19_IsNumber(part)
             THEN {C19_Decimal(C19_Digits(part))} \cap (1..total_pages)
             ELSE {}
        ELSE LET k == CHOOSE k \in dashes : \A j \in dashes : k <= j
                 a == SubSeq(part, 1, k - 1)
                 b == SubSeq(part, k + 1, Len(part))
             IN  IF C19_IsNumber(a) /\ C19_IsNumber(b)
                 THEN LET first == C19_Decimal(C19_Digits(a))
                          last == C19_Decimal(C19_Digits(b))
                      IN  IF 1 <= first /\ first <= last /\ last <= total_pages
                          THEN first..last
                          ELSE {}
                 ELSE {}

\* The non-blank parts of a comma-separated page specification
C19_Parts(page_input) ==
    {part \in {Split(page_input, ",")[i] : i \in 1..Len(Split(page_input, ","))} :
        Strip(part) # <<>>}

\* A specification is valid when it has a part and every part names pages
C19_Valid(page_input, total_pages) ==
    /\ C19_Parts(page_input) # {}
    /\ \A part \in C19_Parts(page_input) : C19_PagesOf(part, total_pages) # {}

C19_Named(page_input, total_pages) ==
    UNION {C19_PagesOf(part, total_pages) : part \in C19_Parts(page_input)}

\* C19: parse_page_numbers returns exactly the set of p - 1 for every page
\* p named by a number or lying inside a range a-b of the comma-separated
\* input, duplicates collapsed and blanks around numbers ignored, every
\* element in 0..total_pages-1; it raises ValueError, with no partial set,
\* when a part is non-numeric, names a page below 1 or above total_pages,
\* is a range whose start exceeds its end, or the input names no page.
C19_ParsedPagesOrValueError ==
    pc = "parsed" =>
        IF C19_Valid(input.page_input, input.total_pages)
        THEN /\ result.raised = ""
             /\ result.pages =
                   {p - 1 : p \in C19_Named(input.page_input, input.total_pages)}
             /\ result.pages \subseteq 0..(input.total_pages - 1)
             /\ result.pages # {}
        ELSE /\ result.raised = "ValueError"
             /\ result.pages = {}

\* C19 witness: "1,3-3, 2 ,1" parsed for 3 pages: page 1 named twice, a
\* range of one page, blanks around 2
C19_Witness ==
    /\ pc = "parsed"
    /\ input.page_input = N_mixed
    /\ input.total_pages = 3
    /\ result.raised = ""
    /\ result.pages = {0, 1, 2}

\* "1,3-1" parsed for 3 pages: ValueError for the range, page 1 not returned
C19_ReversedRangeRaises ==
    /\ pc = "parsed"
    /\ input.page_input = Join(<<N_1, N_3_1>>, ",")
    /\ input.total_pages = 3
    /\ result.raised = "ValueError"
    /\ result.pages = {}

\* C20: remove_pages raises ValueError, and no other exception type, when
\* the page specification names a page outside 1..total_pages or is
\* otherwise invalid, and when the input PDF has no pages; when the
\* specification is valid and every page can be read it returns total_pages
\* minus the number of distinct pages named, the remaining pages having
\* been added to the output in their original order.
C20_RemovePagesRaisesValueError ==
    (pc = "removed" /\ input.file = "pdf") =>
        LET valid == C19_Valid(input.pages_to_remove, input.total_pages)
            named == C19_Named(input.pages_to_remove, input.total_pages)
            pages == 1..input.total_pages
        IN  /\ (input.total_pages = 0 \/ ~valid) => result.raised = "ValueError"
            /\ (/\ input.total_pages > 0
                /\ valid
                /\ \A p \in pages : p - 1 \notin input.unreadable
                /\ input.write_ok) =>
                  /\ result.raised = ""
                  /\ result.pages_kept = input.total_pages - Cardinality(named)
                  /\ result.added = AscendingSeq({p - 1 : p \in pages \ named})

\* What holds of the successful call: the count returned and the order of
\* the pages added
C20_ValidRemovalKeepsTheRest ==
    (/\ pc = "removed"
     /\ input.file = "pdf"
     /\ input.total_pages > 0
     /\ C19_Valid(input.pages_to_remove, input.total_pages)
     /\ \A p \in 1..input.total_pages : p - 1 \notin input.unreadable
     /\ input.write_ok) =>
        LET named == C19_Named(input.pages_to_remove, input.total_pages)
        IN  /\ result.raised = ""
            /\ result.pages_kept = input.total_pages - Cardinality(named)
            /\ result.added =
                  AscendingSeq({p - 1 : p \in (1..input.total_pages) \ named})

\* What the failing call raises: the ValueError of an empty PDF or of an
\* invalid specification leaves remove_pages as a RuntimeError
C20_InvalidRaisesRuntimeError ==
    (/\ pc = "removed"
     /\ input.file = "pdf"
     /\ \/ input.total_pages = 0
        \/ ~C19_Valid(input.pages_to_remove, input.total_pages)) =>
        result.raised = "RuntimeError"

\* remove_pages has been called on a PDF of 3 pages with "4"
C20_PageBeyondEndRaised ==
    /\ pc = "removed"
    /\ input.file = "pdf"
    /\ input.total_pages = 3
    /\ input.pages_to_remove = N_4
    /\ result.raised = "RuntimeError"

\* remove_pages has removed pages 1 and 3 of 3
C20_TwoOfThreeRemoved ==
    /\ pc = "removed"
    /\ input.total_pages = 3
    /\ input.pages_to_remove = Join(<<N_1, N_3>>, ",")
    /\ result.raised = ""
    /\ result.pages_kept = 1
    /\ result.added = <<1>>

-----------------------------------------------------------------------------
\* PDF2ImageConverter (src/pdftools/pdfpages2images.py)

\* self.page_count before any PDF was read: None, which no page count equals
NoPageCount == -1

\* PDF2ImageConverter.__init__
NewConverter == [page_count |-> NoPageCount, image_paths |-> <<>>]

RECURSIVE DecimalDigits(_)
\* str(n) for n >= 0
DecimalDigits(n) ==
    IF n < 10 THEN <<DigitChars[n + 1]>>
    ELSE Append(DecimalDigits(n \div 10), DigitChars[(n % 10) + 1])

RECURSIVE zfill(_, _)
\* s.zfill(width) for a string of digits
zfill(s, width) ==
    IF Len(s) >= width THEN s ELSE zfill(<<"0">> \o s, width)

\* os.path.join(directory, name) for a name that is not absolute
PathJoin(directory, name) ==
    IF directory = <<>> THEN name
    ELSE IF directory[Len(directory)] = "/" THEN directory \o name
    ELSE directory \o <<"/">> \o name

\* The output file of page page_no (page_no in the source)
OutputFile(output_directory, page_no, leading_zeros) ==
    PathJoin(output_directory,
             <<"p", "a", "g", "e", "_">>
                 \o zfill(DecimalDigits(page_no), leading_zeros)
                 \o <<".", "p", "n", "g">>)

RECURSIVE ChunkPages(_, _, _, _, _, _)
\* The inner loop over the images of one chunk, page_no being the next one:
\* fail_at is the page whose conversion or saving fails (0 when none does)
ChunkPages(c, page_no, end_page, output_directory, leading_zeros, fail_at) ==
    IF page_no > end_page THEN [converter |-> c, raised |-> ""]
    ELSE IF page_no = fail_at THEN [converter |-> c, raised |-> "RuntimeError"]
    ELSE ChunkPages(
             [c EXCEPT !.image_paths =
                  Append(@, OutputFile(output_directory, page_no, leading_zeros))],
             page_no + 1, end_page, output_directory, leading_zeros, fail_at)

\* min(a, b)
Min(a, b) == IF a <= b THEN a ELSE b

RECURSIVE ChunkLoop(_, _, _, _, _, _)
\* for start_page in range(1, self.page_count + 1, chunk_size)
ChunkLoop(c, start_page, chunk_size, output_directory, leading_zeros, fail_at) ==
    IF start_page > c.page_count THEN [converter |-> c, raised |-> ""]
    ELSE LET end_page == Min(start_page + chunk_size - 1, c.page_count)
             chunk == TheOne({ChunkPages(c, start_page, end_page, output_directory,
                                         leading_zeros, fail_at)})
         IN  IF chunk.raised # "" THEN chunk
             ELSE ChunkLoop(chunk.converter, start_page + chunk_size, chunk_size,
                            output_directory, leading_zeros, fail_at)

\* _convert_pdf_pages_to_images: the value returned is self.image_paths
convert_pdf_pages_to_images(c, file, output_directory, dpi, chunk_size, fail_at) ==
    IF file.kind = "missing"
    THEN [converter |-> c, raised |-> "FileNotFoundError", image_paths |-> <<>>]
    ELSE IF dpi <= 0 \/ chunk_size <= 0
    THEN [converter |-> c, raised |-> "ValueError", image_paths |-> <<>>]
    ELSE IF c.page_count = NoPageCount
    THEN [converter |-> c, raised |-> "RuntimeError", image_paths |-> <<>>]
    ELSE LET leading_zeros == Len(DecimalDigits(c.page_count))
             done == TheOne({ChunkLoop(c, 1, chunk_size, output_directory,
                                       leading_zeros, fail_at)})
         IN  [converter |-> done.converter,
              raised |-> done.raised,
              image_paths |-> IF done.raised = "" THEN done.converter.image_paths
                              ELSE <<>>]

\* process_pdf: the output directory is made, the page count is read, the
\* pages are converted.  mkdir_ok says whether the directory can be made
process_pdf(c, file, output_directory, dpi, chunk_size, mkdir_ok, fail_at) ==
    IF ~mkdir_ok
    THEN [converter |-> c, raised |-> "RuntimeError", image_paths |-> <<>>]
    ELSE IF file.kind # "pdf"
    THEN [converter |-> c, raised |-> "RuntimeError", image_paths |-> <<>>]
    ELSE convert_pdf_pages_to_images([c EXCEPT !.page_count = file.pages],
                                     file, output_directory, dpi, chunk_size,
                                     fail_at)

\* The successive calls made on one converter
MaxCalls == 2
\* The pages of the short and of the long sample PDF
MaxPdfPages == 3
LongPdfPages == 10

D_images == <<"i", "m", "a", "g", "e", "s">>
D_out == <<"o", "u", "t", "/">>

PdfFiles ==
    {[kind |-> "missing", pages |-> 0], [kind |-> "not_pdf", pages |-> 0]}
        \cup [kind : {"pdf"}, pages : {0, 1, MaxPdfPages, LongPdfPages}]

ConvertCalls ==
    [file : PdfFiles, output_directory : {D_images, D_out}, dpi : {0, 300},
     chunk_size : {0, 2}, mkdir_ok : BOOLEAN, fail_at : {0, 2}]

\* A new converter on which no call has been made: input is the list of the
\* calls made so far
InitConvert ==
    /\ pc = "convert"
    /\ tracker = NewTracker
    /\ tracker0 = NewTracker
    /\ text = <<>>
    /\ page_num = 0
    /\ page_boundaries = <<>>
    /\ position = 0
    /\ result = <<>>
    /\ input = <<>>
    /\ converter = NewConverter
    /\ session_state = <<>>

\* One more call of process_pdf on the same converter
ProcessPdfCall ==
    /\ pc \in {"convert", "converted"}
    /\ Len(input) < MaxCalls
    /\ \E a \in ConvertCalls :
          \E r \in {process_pdf(converter, a.file, a.output_directory, a.dpi,
                                a.chunk_size, a.mkdir_ok, a.fail_at)} :
              /\ converter' = r.converter
              /\ result' = [raised |-> r.raised, image_paths |-> r.image_paths]
              /\ input' = Append(input, a)
    /\ pc' = "converted"
    /\ UNCHANGED <<tracker, tracker0, text, page_num, page_boundaries, position,
                   session_state>>

NextConvert == ProcessPdfCall

SpecConvert == InitConvert /\ [][NextConvert]_vars

\* The paths the claim gives a call: one per page of its input file, in page
\* order, in the output directory of the call
C21_PathsOf(a) ==
    [i \in 1..a.file.pages |->
        OutputFile(a.output_directory, i, Len(DecimalDigits(a.file.pages)))]

\* C21: every call of process_pdf that returns, returns the paths of the
\* images of its own input file, one per page in page order, whatever the
\* converter has processed before
C21_ReturnsPathsOfThisCall ==
    (pc = "converted" /\ result.raised = "") =>
        result.image_paths = C21_PathsOf(input[Len(input)])

\* What the first call on a new converter returns
C21_FirstCallReturnsItsPaths ==
    (pc = "converted" /\ result.raised = "" /\ Len(input) = 1) =>
        result.image_paths = C21_PathsOf(input[1])

\* What any call returns: everything the converter has saved since it was
\* made, the pages saved by failed calls included
C21_ReturnsAllPathsSoFar ==
    (pc = "converted" /\ result.raised = "") =>
        /\ result.image_paths = converter.image_paths
        /\ LET own == C21_PathsOf(input[Len(input)])
               all == result.image_paths
           IN  /\ Len(all) >= Len(own)
               /\ SubSeq(all, Len(all) - Len(own) + 1, Len(all)) = own

\* A second call on a 1-page PDF has returned after a first call on a
\* 3-page PDF
C21_SecondCallAfterThreePages ==
    /\ pc = "converted"
    /\ Len(input) = 2
    /\ result.raised = ""
    /\ input[1].file.pages = 3
    /\ input[2].file.pages = 1
    /\ Len(result.image_paths) = 4

-----------------------------------------------------------------------------
\* Where the units of extract_sentences lie in the text

\* A sentence terminal followed by white space: where the split cuts
C22_CutAfter(txt, i) ==
    /\ txt[i] \in {".", "!", "?"}
    /\ i < Len(txt)
    /\ IsSpace(txt[i + 1])

\* A fragment's first character that is not white space is at 1-based index
\* c: what precedes it is white space back to a cut or to the start of the text
C22_StartsAt(txt, c) ==
    /\ ~IsSpace(txt[c])
    /\ \/ c = 1
       \/ /\ IsSpace(txt[c - 1])
          /\ LET before == {j \in 1..(c - 1) : ~IsSpace(txt[j])}
             IN  \/ before = {}
                 \/ C22_CutAfter(txt, CHOOSE j \in before : \A k \in before : k <= j)

\* A fragment's last character that is not white space is at index d: a cut
\* follows it, or only white space up to the end of the text
C22_EndsAt(txt, d) ==
    /\ ~IsSpace(txt[d])
    /\ \/ C22_CutAfter(txt, d)
       \/ \A k \in (d + 1)..Len(txt) : IsSpace(txt[k])

\* The fragments of the text that pass the two filters, each as the pair of
\* 0-based offsets <<start, end>> of its trimmed characters: from a first
\* character to the nearest last character at or after it
C22_KeptSpans(txt) ==
    LET starts == {c \in 1..Len(txt) : C22_StartsAt(txt, c)}
        ends == {d \in 1..Len(txt) : C22_EndsAt(txt, d)}
        spans == {<<c, CHOOSE d \in ends :
                          d >= c /\ \A e \in ends : e >= c => d <= e>> :
                  c \in starts}
    IN  {<<cd[1] - 1, cd[2]>> : cd \in
            {cd \in spans :
                /\ cd[2] - cd[1] + 1 >= MinSentenceLength
                /\ \E i \in cd[1]..cd[2] : ~IsDigit(txt[i])}}

\* The pairs of a set of disjoint spans, in increasing order
C22_InOrder(spans) ==
    CHOOSE s \in [1..Cardinality(spans) -> spans] :
        \A i \in 1..(Cardinality(spans) - 1) : s[i][2] <= s[i + 1][1]

\* C22: every unit of extract_sentences is found by the forward search at
\* the offsets where its fragment lies in the text: the fallback is never
\* taken, the unit equals text[start:end], and the spans of successive units
\* are those of the kept fragments, disjoint and increasing, so that the
\* cursor never moves backward and no earlier occurrence is matched
C22_UnitsFoundWhereTheyLie ==
    (pc = "sentences") =>
        /\ result.not_found = 0
        /\ result.offsets = C22_InOrder(C22_KeptSpans(text))
        /\ \A i \in 1..Len(result.items) :
              /\ 0 <= result.offsets[i][1]
              /\ result.offsets[i][2] <= Len(text)
              /\ result.items[i] =
                    SubSeq(text, result.offsets[i][1] + 1, result.offsets[i][2])
        /\ \A i \in 1..(Len(result.offsets) - 1) :
              result.offsets[i][2] <= result.offsets[i + 1][1]

\* Two units with the same characters have been returned, a short fragment
\* dropped between them (and the empty one that ends the text), and the
\* second is found after the first
C22_Witness ==
    /\ pc = "sentences"
    /\ text = P_long \o P_hi \o P_long
    /\ result.items = <<U_long, U_long>>
    /\ result.offsets[1][1] = 0
    /\ result.offsets[2][1] = Len(P_long) + Len(P_hi)
    /\ Len(NewRecords) = 2

-----------------------------------------------------------------------------
\* Where the paragraphs of extract_all_paragraphs lie in the text

\* The paragraphs of a text with the 0-based offset at which each begins:
\* the groups of lines as the loop forms them, each joined and trimmed, the
\* offset being that of the first character left by the trimming; those of
\* 20 characters or more, in order
C23_OwnParagraphs(txt) ==
    LET lines == Split(txt, NL)
        n == Len(lines)
        first == AscendingSeq({1} \cup {k \in 2..n : C15_IsHeaderUntrimmed(lines[k])})
        last(j) == IF j = Len(first) THEN n ELSE first[j + 1] - 1
        raw(j) == Join(SubSeq(lines, first[j], last(j)), NL)
        offset(j) == SumLen(SubSeq(lines, 1, first[j] - 1)) + (first[j] - 1)
        candidates == [j \in 1..Len(first) |->
                          [text |-> Strip(raw(j)),
                           start |-> offset(j) + Len(raw(j)) - Len(LStrip(raw(j)))]]
    IN  SelectSeq(candidates, LAMBDA c : Len(c.text) >= MinParagraphLength)

\* C23: the start offset extract_all_paragraphs uses to map a returned
\* paragraph to its page is the offset at which that paragraph begins in
\* the text, never that of an earlier occurrence of the same characters
C23_ParagraphFoundWhereItLies ==
    (pc = "paragraphs") =>
        LET own == C23_OwnParagraphs(text)
        IN  /\ Len(result.offsets) = Len(own)
            /\ \A i \in 1..Len(own) : result.offsets[i][1] = own[i].start

\* What does hold: the returned paragraphs are those of the groups, each
\* found at an occurrence of its characters that begins at or after the end
\* of the previous match and at or before its own offset
C23_FoundAtOrBeforeOwnOffset ==
    (pc = "paragraphs") =>
        LET own == C23_OwnParagraphs(text)
        IN  /\ result.not_found = 0
            /\ Len(result.offsets) = Len(own)
            /\ \A i \in 1..Len(own) :
                  /\ result.items[i] = own[i].text
                  /\ result.items[i] =
                        SubSeq(text, result.offsets[i][1] + 1, result.offsets[i][2])
                  /\ result.offsets[i][1] <= own[i].start
                  /\ i > 1 => result.offsets[i - 1][2] <= result.offsets[i][1]

\* The paragraph "1234.abcdefghij\n1234" begins at offset 17, on the second
\* page, and has been matched at offset 1, inside the dropped first line
C23_MatchedInsideDroppedLine ==
    /\ pc = "paragraphs"
    /\ text = Join(<<A_echo, A_head, A_1234>>, NL)
    /\ result.items = <<Join(<<A_head, A_1234>>, NL)>>
    /\ result.offsets = <<<<1, 21>>>>
    /\ result.starts = <<0>>
    /\ calculate_page_position(17, page_boundaries) = 1

-----------------------------------------------------------------------------
\* Document order of the returned units

\* C24: the units of extract_sentences and of extract_all_paragraphs are
\* returned in document order: of two consecutive units the first ends at or
\* before the offset where the second starts, so the end page of the first is
\* at most the start page of the second, and the start pages and the end
\* pages never decrease along the list
C24_UnitsInDocumentOrder ==
    (pc \in {"sentences", "paragraphs"}) =>
        \A i \in 1..(Len(result.items) - 1) :
            /\ result.offsets[i][2] <= result.offsets[i + 1][1]
            /\ result.ends[i] <= result.starts[i + 1]
            /\ result.starts[i] <= result.starts[i + 1]
            /\ result.ends[i] <= result.ends[i + 1]

\* Two paragraphs have been returned, the first from page 0 to page 1 and
\* the second from page 1 to page 2
C24_Witness ==
    /\ pc = "paragraphs"
    /\ text = T_two_paragraphs
    /\ Len(result.items) = 2
    /\ result.starts = <<0, 1>>
    /\ result.ends = <<1, 2>>
    /\ result.offsets[1][2] < result.offsets[2][1]

-----------------------------------------------------------------------------
\* The order of the ledger's records in a complete run

\* The stage that wrote a record: 1 the classifier of clean_page_text, 2 the
\* references-section marker, 3 a bibliography entry, 4 the sentence
\* segmenter
C25_Stage(rec) ==
    CASE rec.discard_type = "references_section" -> 2
      [] rec.discard_type = "bibliography_entry" -> 3
      [] rec.reason \in {"Sentence < 10 chars", "Sentence is just a number"} -> 4
      [] OTHER -> 1

\* The contents of the records of the sentence segmenter, in ledger order
C25_SegmenterContents(records) ==
    LET own == SelectSeq(records, LAMBDA rec : C25_Stage(rec) = 4)
    IN  [i \in 1..Len(own) |-> own[i].content]

\* C25: once extract_and_clean has run (and after the segmenter too), the
\* ledger lists the classifier records first, by increasing page and by
\* increasing line within a page, then at most one references-section
\* marker, then the bibliography entries by increasing line, then the
\* segmenter's records in fragment order; and original_character_count is
\* the length the text had when the last page had been added and no
\* reference had been removed, which is the last entry of the boundary table
C25_RecordsFollowStageOrder ==
    (pc \in {"segment", "sentences", "paragraphs"}) =>
        LET records == tracker.discarded_items
            n == Len(records)
        IN  /\ \A i \in 1..n : \A j \in (i + 1)..n :
                  /\ C25_Stage(records[i]) <= C25_Stage(records[j])
                  /\ (C25_Stage(records[i]) = 1 /\ C25_Stage(records[j]) = 1) =>
                        \/ records[i].page_number < records[j].page_number
                        \/ /\ records[i].page_number = records[j].page_number
                           /\ records[i].line_number < records[j].line_number
                  /\ (C25_Stage(records[i]) = 2) => (C25_Stage(records[j]) # 2)
                  /\ (C25_Stage(records[i]) = 3 /\ C25_Stage(records[j]) = 3) =>
                        records[i].line_number < records[j].line_number
            /\ C25_SegmenterContents(records) =
                  IF pc = "sentences"
                  THEN SelectSeq(C7_Fragments(text), C7_IsDropped)
                  ELSE <<>>
            /\ tracker.original_character_count =
                  page_boundaries[Len(page_boundaries)]

\* A sentence run has ended with records of all four stages: two of the
\* classifier on page 0, the marker and an entry of the references on page
\* 1, and one of the segmenter
C25_Witness ==
    /\ pc = "sentences"
    /\ input.pages = <<StrText(G_noise), StrText(G_refs)>>
    /\ [i \in 1..Len(tracker.discarded_items) |->
           C25_Stage(tracker.discarded_items[i])] = <<1, 1, 2, 3, 4>>
    /\ tracker.original_character_count > Len(text)

-----------------------------------------------------------------------------
\* The page and line fields of the records of a run

\* The lines of the raw text of page p (0-based) of the document
C26_RawLines(p) == Split(input.pages[p + 1].str, NL)

\* A record points at a line of the document: its page field is the index
\* of a page that has text, its line field the 1-based index of a line of
\* that page's raw text, and the record's content is that line, trimmed
\* (and with its runs of spaces collapsed, for what the references stage
\* reads from the cleaned text)
C26_PointsAtItsLine(rec) ==
    /\ rec.page_number \in 0..(Len(input.pages) - 1)
    /\ HasText(input.pages[rec.page_number + 1])
    /\ rec.line_number \in 1..Len(C26_RawLines(rec.page_number))
    /\ LET raw == C26_RawLines(rec.page_number)[rec.line_number]
       IN  IF C25_Stage(rec) = 1 THEN rec.content = Strip(raw)
           ELSE Strip(rec.content) = Strip(CollapseSpaces(raw))

\* C26: every record of the classifier, of the references-section marker
\* and of a bibliography entry in the ledger of a run carries the 0-based
\* index of the page its content came from and the 1-based index of the
\* removed line within that page's raw text
C26_RecordsCarryPageAndLine ==
    (pc \in {"segment", "sentences", "paragraphs"}) =>
        \A i \in 1..Len(tracker.discarded_items) :
            C25_Stage(tracker.discarded_items[i]) \in 1..3 =>
                C26_PointsAtItsLine(tracker.discarded_items[i])

\* What holds of the classifier's records
C26_ClassifierRecordsCarryPageAndLine ==
    (pc \in {"segment", "sentences", "paragraphs"}) =>
        \A i \in 1..Len(tracker.discarded_items) :
            C25_Stage(tracker.discarded_items[i]) = 1 =>
                C26_PointsAtItsLine(tracker.discarded_items[i])

\* What the records of the references stage carry: the marker has the
\* 0-based index of the header line within the whole cleaned text in its
\* page field (the number of lines that are returned, an empty text being
\* returned for no line and for one empty line) and 0 in its line field; an
\* entry has 0 in its page field and the 0-based index of its line within
\* the whole cleaned text in its line field
C26_ReferenceRecordsCarryTextLine ==
    (pc \in {"segment", "sentences", "paragraphs"}) =>
        \A i \in 1..Len(tracker.discarded_items) :
            LET rec == tracker.discarded_items[i]
                marker == CHOOSE m \in 1..i :
                              C25_Stage(tracker.discarded_items[m]) = 2
                header == tracker.discarded_items[marker].page_number
            IN  /\ C25_Stage(rec) = 2 =>
                      /\ rec.line_number = 0
                      /\ IF text = <<>> THEN rec.page_number \in {0, 1}
                         ELSE rec.page_number = Len(Split(text, NL))
                /\ C25_Stage(rec) = 3 =>
                      /\ rec.page_number = 0
                      /\ rec.line_number > header

\* A run over "This is long. Hi.\n42" and "References\n[1] A" has ended:
\* the entry "[1] A", line 2 of page 1, is recorded with page 0
C26_EntryRecordedOnPageZero ==
    /\ pc = "segment"
    /\ input.pages = <<StrText(G_body), StrText(G_refs)>>
    /\ \E i \in 1..Len(tracker.discarded_items) :
          /\ tracker.discarded_items[i].discard_type = "bibliography_entry"
          /\ tracker.discarded_items[i].content = L_ref1
          /\ tracker.discarded_items[i].page_number = 0
          /\ tracker.discarded_items[i].line_number = 2

-----------------------------------------------------------------------------
\* The text and the table that survive the removal of the references

\* What page i (1-based) of the document adds to the text: its cleaned text
\* and a newline, nothing when the page has no text
C27_PageStretch(i) ==
    IF HasText(input.pages[i])
    THEN clean_page_text(input.pages[i].str, i - 1, NewTracker).text \o <<NL>>
    ELSE <<>>

\* The text of the first i pages, before any reference is removed
C27_TextUpTo(i) == Concat([k \in 1..i |-> C27_PageStretch(k)])

\* The returned text is the first characters of the input text
C27_IsPrefix(returned, given) ==
    /\ Len(returned) <= Len(given)
    /\ returned = SubSeq(given, 1, Len(returned))

\* C27: the text extract_and_clean returns is a prefix of the text of all
\* the pages (the whole of it when no line is a references header), the
\* table it returns is the one of that text before stripping, and the table
\* maps the offset of every surviving character to the page the character
\* came from
C27_SurvivorsKeepOffsetAndPage ==
    (pc = "segment") =>
        LET n == Len(input.pages)
            full == C27_TextUpTo(n)
        IN  /\ C27_IsPrefix(text, full)
            /\ ~C5_HasHeader(full) => text = full
            /\ page_boundaries = [i \in 1..(n + 1) |-> Len(C27_TextUpTo(i - 1))]
            /\ \A o \in 0..(Len(text) - 1) :
                  LET p == calculate_page_position(o, page_boundaries)
                  IN  /\ p \in 0..(n - 1)
                      /\ Len(C27_TextUpTo(p)) <= o
                      /\ o < Len(C27_TextUpTo(p + 1))
                      /\ text[o + 1] = C27_PageStretch(p + 1)[o - Len(C27_TextUpTo(p)) + 1]

\* remove_references on its own: the returned text is a prefix of the text
\* given, the whole of it when no line is a header
C27_ReturnsPrefix ==
    (pc = "stripped") =>
        /\ C27_IsPrefix(result, text)
        /\ ~C5_HasHeader(text) => result = text

\* The references on the second page of two have been removed: the text
\* ends before them and the table still has the boundaries of both pages
C27_Witness ==
    /\ pc = "segment"
    /\ input.pages = <<StrText(G_body), StrText(G_refs)>>
    /\ text = <<"T", "h", "i", "s", " ", "i", "s", " ", "l", "o", "n", "g", ".",
                " ", "H", "i", ".">>
    /\ page_boundaries = <<0, 18, 35>>

-----------------------------------------------------------------------------
\* The pages of the units of a complete run

\* C28: in a complete run on n >= 1 pages every unit returned by
\* extract_sentences or extract_all_paragraphs has
\* 0 <= start_page <= end_page <= n - 1, and ends strictly before the last
\* boundary offset
C28_UnitsOnExistingPages ==
    (pc \in {"sentences", "paragraphs"} /\ Len(input.pages) >= 1) =>
        \A i \in 1..Len(result.items) :
            /\ 0 <= result.starts[i]
            /\ result.starts[i] <= result.ends[i]
            /\ result.ends[i] <= Len(input.pages) - 1
            /\ result.offsets[i][2] < page_boundaries[Len(page_boundaries)]

\* A sentence run on two pages has returned a unit that ends on the last
\* page, one character before the last boundary
C28_Witness ==
    /\ pc = "sentences"
    /\ input.pages = <<StrText(G_body), StrText(G_also)>>
    /\ Len(result.items) = 2
    /\ result.starts = <<0, 1>>
    /\ result.ends = <<0, 1>>
    /\ result.offsets[2][2] = page_boundaries[3] - 1

-----------------------------------------------------------------------------
\* The discard rate of a complete sentence run

\* C29: at the end of a complete sentence-extraction run on a fresh ledger
\* total_lines_discarded is at most total_lines_processed, so the
\* discard_rate_percent of get_statistics (in hundredths here) is at most 100
C29_DiscardRateAtMost100 ==
    (pc = "sentences") =>
        /\ tracker.total_lines_discarded <= tracker.total_lines_processed
        /\ \A s \in get_statistics(tracker) :
              s.raised = "" /\ s.discard_rate_percent <= 100 * 100

\* What holds after extract_and_clean alone: only lines that were counted
\* are discarded, each once
C29_CleanerDiscardsCountedLines ==
    (pc = "segment") =>
        tracker.total_lines_discarded <= tracker.total_lines_processed

\* What the segmenter adds: one discard per dropped fragment, and nothing
\* to total_lines_processed
C29_SegmenterCountsNoLine ==
    (pc = "sentences") =>
        LET n == Len(tracker.discarded_items)
            dropped == Len(C25_SegmenterContents(tracker.discarded_items))
        IN  /\ tracker.total_lines_discarded = n
            /\ tracker.total_lines_processed
                  = Cardinality(UNION {{<<i, k>> : k \in C17_NonBlankLines(input.pages[i])} :
                                       i \in 1..Len(input.pages)})
            /\ dropped = Len(SelectSeq(C7_Fragments(text), C7_IsDropped))

\* The run on the one page "This is long. Hi.\n42" has ended: 2 lines
\* processed, 3 discards ("42", "Hi." and the empty last fragment), a rate
\* of 150 percent
C29_ThreeDiscardsOfTwoLines ==
    /\ pc = "sentences"
    /\ input.pages = <<StrText(G_body)>>
    /\ tracker.total_lines_processed = 2
    /\ tracker.total_lines_discarded = 3
    /\ \E s \in get_statistics(tracker) : s.discard_rate_percent = 150 * 100

-----------------------------------------------------------------------------
\* The PDF viewer (src/pdftools/sl_pdfviewer.py): st.session_state and the
\* handlers of the sidebar.  zoom_level, rotation, dpi and night_mode, which
\* no handler below reads or writes, and the rectangles drawn on
\* annotated_doc are left out; doc stands for doc and annotated_doc, opened
\* and closed together

\* st.session_state.doc when no document is open
NoDoc == [content |-> "None", page_count |-> 0]

\* PDFState.init_state
init_state ==
    [page_num |-> 0, pdf_file |-> "None", doc |-> NoDoc,
     view_mode |-> "Single Page", search_results |-> <<>>, last_query |-> "",
     highlighted_pages |-> {}, search_performed |-> FALSE]

\* PDFDocument.close_document
close_document(s) ==
    [s EXCEPT !.doc = NoDoc, !.search_performed = FALSE,
              !.search_results = <<>>, !.last_query = "",
              !.highlighted_pages = {}]

\* PDFDocument.load_document(file_content): file.page_count is the number of
\* pages fitz.open finds, 0 when fitz.open raises, and the exception is
\* raised again after the document was closed and pdf_file was set
load_document(s, file) ==
    LET closed == [close_document(s) EXCEPT !.pdf_file = file.content]
    IN  IF file.page_count = 0 THEN closed
        ELSE [closed EXCEPT !.doc = [content |-> file.content,
                                     page_count |-> file.page_count],
                            !.page_num = 0]

\* increment and decrement: 2 if view_mode == "Double Page" else 1
PageStep(view_mode) == IF view_mode = "Double Page" THEN 2 ELSE 1

\* A mutation of _handle_next_page: the test is the one of single-page view
\* whatever the view mode
handle_next_page_single_test(s) ==
    IF s.page_num < s.doc.page_count - 1
    THEN [s EXCEPT !.page_num = @ + PageStep(s.view_mode)]
    ELSE s

\* PDFViewerUI._handle_next_page
handle_next_page(s) ==
    IF s.page_num < s.doc.page_count - PageStep(s.view_mode)
    THEN [s EXCEPT !.page_num = @ + PageStep(s.view_mode)]
    ELSE s

\* PDFViewerUI._handle_prev_page
handle_prev_page(s) ==
    IF s.page_num >= PageStep(s.view_mode)
    THEN [s EXCEPT !.page_num = @ - PageStep(s.view_mode)]
    ELSE s

\* PDFViewerUI._handle_page_jump, target_page being st.session_state.target_page
handle_page_jump(s, target_page) ==
    IF target_page > 0 /\ target_page <= s.doc.page_count
    THEN [s EXCEPT !.page_num = target_page - 1]
    ELSE s

\* The pages of a document on which page.search_for(query) finds a match:
\* in the sample files every page of "a" holds the word "x", and only the
\* first page of "b" holds "x" and "y"
PagesWithMatches(doc, query) ==
    {p \in 0..(doc.page_count - 1) :
        \/ doc.content = "a" /\ query = "x"
        \/ doc.content = "b" /\ p = 0}

\* SearchManager.search(query): one result per page with matches, in page
\* order
search(s, query) ==
    LET pages == PagesWithMatches(s.doc, query)
    IN  [s EXCEPT !.highlighted_pages = pages,
                  !.search_results = [i \in 1..Cardinality(pages) |->
                                         [page_num |-> AscendingSeq(pages)[i]]],
                  !.last_query = query,
                  !.search_performed = TRUE]

\* Bound: the pages of an uploaded document
MaxDocPages == 3

\* The files a user uploads: page_count 0 is a file fitz.open rejects
Uploads == [content : {"a", "b"}, page_count : 0..MaxDocPages]

\* A new session: PDFState() has run init_state
InitViewer ==
    /\ pc = "init_state"
    /\ tracker = NewTracker
    /\ tracker0 = NewTracker
    /\ text = <<>>
    /\ page_num = 0
    /\ page_boundaries = <<>>
    /\ position = 0
    /\ result = <<>>
    /\ input = <<>>
    /\ converter = <<>>
    /\ session_state = init_state

\* render_sidebar with a newly chosen file: uploaded_file.getvalue() differs
\* from pdf_file and load_document runs.  The search box then shows the
\* cleared last_query, so no search follows in the same run
UploadFile ==
    /\ \E file \in Uploads :
          /\ session_state.pdf_file # file.content
          /\ session_state' = load_document(session_state, file)
          /\ input' = [file |-> file]
    /\ pc' = "load_document"
    /\ UNCHANGED <<tracker, tracker0, text, page_num, page_boundaries, position,
                   result, converter>>

\* _render_view_controls: the radio sets view_mode (rendered only when a
\* document is open, as all the controls below)
SetViewMode ==
    /\ session_state.doc.page_count > 0
    /\ \E mode \in {"Single Page", "Double Page"} :
          /\ session_state' = [session_state EXCEPT !.view_mode = mode]
          /\ input' = [view_mode |-> mode]
    /\ pc' = "view_mode"
    /\ UNCHANGED <<tracker, tracker0, text, page_num, page_boundaries, position,
                   result, converter>>

\* The "Next" button
NextPage ==
    /\ session_state.doc.page_count > 0
    /\ session_state' = handle_next_page(session_state)
    /\ input' = <<>>
    /\ pc' = "next_page"
    /\ UNCHANGED <<tracker, tracker0, text, page_num, page_boundaries, position,
                   result, converter>>

\* The "Previous" button
PrevPage ==
    /\ session_state.doc.page_count > 0
    /\ session_state' = handle_prev_page(session_state)
    /\ input' = <<>>
    /\ pc' = "prev_page"
    /\ UNCHANGED <<tracker, tracker0, text, page_num, page_boundaries, position,
                   result, converter>>

\* "Go to page": the handler reads target_page and tests it itself, so the
\* values on both sides of the widget's limits are tried too
PageJump ==
    /\ session_state.doc.page_count > 0
    /\ \E target_page \in 0..(MaxDocPages + 1) :
          /\ session_state' = handle_page_jump(session_state, target_page)
          /\ input' = [target_page |-> target_page]
    /\ pc' = "page_jump"
    /\ UNCHANGED <<tracker, tracker0, text, page_num, page_boundaries, position,
                   result, converter>>

\* _render_search_controls: a query that is not empty is searched for when
\* the button is pressed or the query is new
Search ==
    /\ session_state.doc.page_count > 0
    /\ \E query \in {"x", "y"} :
          /\ session_state' = search(session_state, query)
          /\ input' = [query |-> query]
    /\ pc' = "search"
    /\ UNCHANGED <<tracker, tracker0, text, page_num, page_boundaries, position,
                   result, converter>>

NextViewer ==
    UploadFile \/ SetViewMode \/ NextPage \/ PrevPage \/ PageJump \/ Search

SpecViewer == InitViewer /\ [][NextViewer]_vars

\* The index is that of a page of the open document
C30_IndexInRange(s) ==
    s.doc.page_count >= 1 => s.page_num \in 0..(s.doc.page_count - 1)

\* What the claim gives each action: s is the session before it, t after it
C30_Step(s, t) ==
    LET N == s.doc.page_count
        by == IF t.view_mode = "Double Page" THEN 2 ELSE 1
    IN  /\ pc' = "next_page" =>
              t.page_num = IF s.page_num + by <= N - 1 THEN s.page_num + by
                           ELSE s.page_num
        /\ pc' = "prev_page" =>
              t.page_num = IF s.page_num - by >= 0 THEN s.page_num - by
                           ELSE s.page_num
        /\ pc' = "page_jump" =>
              t.page_num = IF input'.target_page \in 1..N
                           THEN input'.target_page - 1
                           ELSE s.page_num
        /\ pc' = "view_mode" => t.page_num = s.page_num
        /\ pc' \in {"next_page", "prev_page", "page_jump", "view_mode", "search"} =>
              t.doc = s.doc
        /\ (pc' = "load_document" /\ t.doc.page_count >= 1) =>
              /\ t.page_num = 0
              /\ t.search_results = <<>>
              /\ t.last_query = ""
              /\ t.highlighted_pages = {}

\* C30: while a document of N >= 1 pages is open the page index stays in
\* 0..N-1 through every next-page, previous-page, go-to-page, view-mode and
\* search action; next and previous move by 2 in double-page view and by 1
\* otherwise and do nothing when the move would leave the range; loading a
\* document sets the index to 0 and clears the search results, the last
\* query and the highlighted pages
C30_PageIndexStaysInRange ==
    [][/\ C30_IndexInRange(session_state')
       /\ C30_Step(session_state, session_state')]_vars

\* In double-page view of a 3-page document, Next has moved the index from
\* 0 to 2, the last page, after a search had filled the results
C30_Witness ==
    /\ pc = "next_page"
    /\ session_state.doc.page_count = 3
    /\ session_state.view_mode = "Double Page"
    /\ session_state.page_num = 2
    /\ session_state.search_results # <<>>

\* A second document has been loaded over a first one that had been
\* searched and paged through
C30_SecondDocumentLoaded ==
    /\ pc = "load_document"
    /\ session_state.doc.content = "b"
    /\ session_state.doc.page_count = 2
    /\ session_state.page_num = 0
    /\ session_state.search_results = <<>>
    /\ ~session_state.search_performed

====
